---- MODULE Spec2Model ----
(***************************************************************************)
(* CodeSnap snapshot engine: the checkpoint store and the content store of *)
(* StorageManager, the project walker of FileService, and the create and   *)
(* restore protocols of CheckpointService and RestoreService; the          *)
(* comparisons, the listing and the export; FileService and the Checkpoint *)
(* model called directly; the file monitor; two callers of the content     *)
(* store at once.                                                          *)
(*                                                                         *)
(* One operation runs at a time (the services are synchronous); each       *)
(* filesystem call of an operation is one step, so that a failure or an    *)
(* interruption between any two of them is a reachable state.  The user    *)
(* edits the project tree between operations.                              *)
(***************************************************************************)
EXTENDS Integers, FiniteSets, Sequences, TLC

\* ------------------------------------------------------------------ bounds
MaxId == 3
MaxClock == 1
MaxStored == 2

VARIABLES
    project,      \* the (path, bytes) pairs the user of this tree writes
    files,        \* live tree: path -> content, for the files that exist
    dirs,         \* live tree: the directories that exist
    checkpoints,  \* checkpoints/<id>.json: id -> manifest file
    blobs,        \* files/<address>: address -> stored text
    now,          \* the wall clock datetime.now() reads
    pc,           \* where the running operation is ("idle": none runs)
    cp,           \* create: the checkpoint under construction; restore: the target
    todo,         \* the paths the current loop still has to visit
    prune,        \* restore: ids of checkpoints_to_delete not yet unlinked
    last,         \* outcome of the operation that returned last
    pre,          \* history: the checkpoint store when the running call began
    issued,       \* history: the largest id create_checkpoint has returned
    prev,         \* history: the state the last completed restore left
    retry,        \* history: the tree the restore began with, what it should produce
    answer,       \* what the query or content-store call that ran last returned
    config,       \* the Config the services were constructed with
    strays,       \* checkpoints/<stem>.json files that no create_checkpoint wrote
    stored,       \* history: the strings save_file_snapshot was called with
    mtimes,       \* live tree: path -> st_mtime
    monitor,      \* FileMonitorService: is_monitoring, initial_file_states, changed_files
    racers,       \* two callers inside save_file_snapshot: caller -> position
    blobfile,     \* the blob file the two callers write: its bytes, or absent
    elsewhere     \* the tree under a restore_path outside the project: files, dirs

vars == <<project, files, dirs, checkpoints, blobs, now, pc, cp, todo, prune, last, pre,
          issued, prev, retry, answer, config, strays, stored, mtimes, monitor,
          racers, blobfile, elsewhere>>

\* What the checkpoint and comparison services never touch
aside == <<config, strays, mtimes, monitor, racers, blobfile, elsewhere>>


\* ------------------------------------------------------------- the domain
\* File contents as decoded text; BIN stands for bytes that are not valid
\* UTF-8.
Contents == {"", "x"}
BIN == "BIN"
None == "None"
\* Project-relative paths.  ".git" is a regular file whose only component
\* is a default ignore token; "a" may be a file or the directory of "a/b".
Paths == {"a", "a/b", "c", ".git"}
ROOT == "."
\* The projects explored: each is the set of (path, bytes) the user writes.
\* One has a name that is a file at one time and a directory at another, and
\* an ignored file; the other has two files, one of them rewritten with
\* other text or with unreadable bytes.
Projects ==
    { {<<"a", "x">>, <<"a/b", "x">>, <<".git", "x">>},
      {<<"a", "x">>, <<"c", "">>, <<"c", "x">>, <<"c", BIN>>} }
Ids == 1..MaxId
\* The exception classes the filesystem and json calls raise
Errors == {"OSError", "TypeError"}
NoId == 0

EmptyMap == [p \in {} |-> ""]

Remove(f, k) == [q \in DOMAIN f \ {k} |-> f[q]]

Max(S) == CHOOSE m \in S : \A n \in S : n <= m

\* The hex digests the model's contents have (first four digits)
Digests == {"e3b0", "2d71", "73cb", "b35e", "ffff"}

\* StorageManager.__init__ and save_checkpoint: checkpoints_dir / f"{id}.json",
\* relative to the project root (base_path is <cwd>/.codesnap)
checkpoint_path(i) == ".codesnap/checkpoints/" \o ToString(i) \o ".json"

\* save_file_snapshot: files_dir / content_hash
snapshot_path(h) == ".codesnap/files/" \o h

checkpoint_paths == {checkpoint_path(i) : i \in Ids}

snapshot_paths == {snapshot_path(h) : h \in Digests}

\* pathlib: Path.parts and Path.parent of a relative path
Parts(p) ==
    CASE p = "a/b" -> <<"a", "b">>
      [] p = ".venv/lib.py" -> <<".venv", "lib.py">>
      [] p \in checkpoint_paths ->
            <<".codesnap", "checkpoints",
              ToString(CHOOSE i \in Ids : p = checkpoint_path(i)) \o ".json">>
      [] p \in snapshot_paths ->
            <<".codesnap", "files", CHOOSE h \in Digests : p = snapshot_path(h)>>
      [] OTHER -> <<p>>

Parent(p) ==
    CASE p = "a/b" -> "a"
      [] p = ".venv/lib.py" -> ".venv"
      [] p \in checkpoint_paths -> ".codesnap/checkpoints"
      [] p \in snapshot_paths -> ".codesnap/files"
      [] OTHER -> ROOT

\* (mutant) the default ignore tokens without the store's directory
default_ignore_patterns_without_store ==
    {".git", "__pycache__", ".pytest_cache", "node_modules"}

\* config.py: the default ignore tokens
default_ignore_patterns ==
    {".git", "__pycache__", ".pytest_cache", "node_modules", ".codesnap"}

\* config.py: max_file_size, 10 * 1024 * 1024
default_max_file_size == 10485760

\* Config(project_root, ignore_patterns, max_file_size)
Config(patterns, size) ==
    [ignore_patterns |-> patterns,
     default_ignore_patterns |-> default_ignore_patterns,
     max_file_size |-> size]

\* FileService.__init__: self.ignore_patterns
ignore_patterns == config.default_ignore_patterns \cup config.ignore_patterns

\* FileService.is_ignored: "part in self.ignore_patterns" for a part of the
\* path (no .gitignore in the tree)
is_ignored(p) == \E i \in 1..Len(Parts(p)) : Parts(p)[i] \in ignore_patterns

\* FileService.get_project_files: every file under the root that is not ignored
get_project_files(fs) == {p \in DOMAIN fs : ~is_ignored(p)}

\* (mutant) the size cap and the decode error are not checked
read_any_bytes(fs, p) == IF p \notin DOMAIN fs THEN None ELSE fs[p]

\* open(path) in text mode, newline=None: "\r\n" and "\r" are read as "\n"
universal_newlines(c) == IF c = "x\r\n" THEN "x\n" ELSE c

\* st_size of a file with these bytes
Size(v) ==
    CASE v = "" -> 0
      [] v = "x" -> 1
      [] v = "x\r\n" -> 3
      [] v = BIN -> 4
      [] OTHER -> 64

\* (mutant) ">=" for ">" in the size test
read_file_content_below(fs, p) ==
    IF p \notin DOMAIN fs THEN None
    ELSE IF Size(fs[p]) >= config.max_file_size THEN None
    ELSE IF fs[p] = BIN THEN None
    ELSE universal_newlines(fs[p])

\* FileService.read_file_content: None for a file that does not exist, is
\* larger than max_file_size or does not decode as UTF-8; the file is read
\* in text mode
read_file_content(fs, p) ==
    IF p \notin DOMAIN fs THEN None
    ELSE IF Size(fs[p]) > config.max_file_size THEN None
    ELSE IF fs[p] = BIN THEN None
    ELSE universal_newlines(fs[p])

\* The strings handed to the content store directly: save_file_snapshot is
\* a public method and takes any str, a CRLF line included.
Strings == {"", "x", "x\r\n"}

\* (mutant) an address taken from the first character of the content only
_get_file_hash_of_prefix(c) == IF c = "" THEN "e3b0" ELSE "2d71"

\* StorageManager._get_file_hash: SHA-256 hex (first four digits shown)
_get_file_hash(c) ==
    CASE c = "" -> "e3b0"
      [] c = "x" -> "2d71"
      [] c = "x\n" -> "73cb"
      [] c = "x\r\n" -> "b35e"
      [] OTHER -> "ffff"

\* (mutant) the existence test inverted: a new blob is never written
save_only_existing(bl, content) ==
    IF _get_file_hash(content) \in DOMAIN bl
    THEN (_get_file_hash(content) :> content) @@ bl
    ELSE bl

\* StorageManager.save_file_snapshot: the blob store after the call
save_file_snapshot(bl, content) ==
    IF _get_file_hash(content) \in DOMAIN bl THEN bl
    ELSE (_get_file_hash(content) :> content) @@ bl

\* StorageManager.load_file_snapshot: blobs holds what f.write put in the
\* file (on POSIX the string as it is); f.read() translates the line ends.
load_file_snapshot(bl, h) ==
    IF h \in DOMAIN bl THEN universal_newlines(bl[h]) ELSE None

\* models.Checkpoint as CheckpointService constructs it
Checkpoint(i, ts) ==
    [id |-> i, timestamp |-> ts, prompt |-> FALSE, file_snapshots |-> EmptyMap,
     restored_from |-> NoId, partial |-> FALSE]

NoCheckpoint == Checkpoint(NoId, 0)

\* (mutant) the largest stem itself
largest_checkpoint_id(cps) ==
    IF DOMAIN cps = {} THEN 1 ELSE Max(DOMAIN cps)

\* (mutant) one more than the smallest stem
after_smallest_checkpoint_id(cps) ==
    IF DOMAIN cps = {} THEN 1
    ELSE (CHOOSE m \in DOMAIN cps : \A n \in DOMAIN cps : m <= n) + 1

\* The stems of files in the checkpoints directory that no create wrote
Stems == {"notes", "0", "-1"}

\* int(checkpoint_file.stem), for the stems that parse
int_stem(st) == IF st = "0" THEN 0 ELSE -1

\* storage.py 74-80: existing_ids, the stems for which int() raises skipped
existing_ids(cps) == DOMAIN cps \cup {int_stem(st) : st \in strays \ {"notes"}}

\* StorageManager.get_next_checkpoint_id: one more than the largest stem
get_next_checkpoint_id(cps) ==
    IF existing_ids(cps) = {} THEN 1 ELSE Max(existing_ids(cps)) + 1

\* A manifest file that open(path, "w") created and json.dump did not finish
PartialFile(i) == [Checkpoint(i, 0) EXCEPT !.partial = TRUE]

\* StorageManager.list_checkpoints and load_checkpoint parse every manifest
\* file they open: json.load raises on a file json.dump did not finish.
LoadFails(cps, S) == \E i \in S : cps[i].partial

\* (mutant) ">=" for ">": the target is selected too
not_before_target(cps, T) ==
    {i \in DOMAIN cps : cps[i].timestamp >= T.timestamp}

\* (mutant) only the checkpoint created right after the target is selected
only_next_checkpoint(cps, T) ==
    {i \in DOMAIN cps : cps[i].timestamp > T.timestamp /\ i = T.id + 1}

\* (mutant) the checkpoints created after the target, by id
created_after_target(cps, T) == {i \in DOMAIN cps : i > T.id}

\* restore_service.py 56-60: checkpoints_to_delete
checkpoints_to_delete(cps, T) ==
    {i \in DOMAIN cps : cps[i].timestamp > T.timestamp}

\* (mutant) the set difference taken the other way round
files_missing(fs, T) == DOMAIN T.file_snapshots \ get_project_files(fs)

\* (mutant) only the files that read_file_content can read are surplus
files_to_delete_readable(fs, T) ==
    {p \in get_project_files(fs) : read_file_content(fs, p) # None}
        \ DOMAIN T.file_snapshots

\* restore_service.py 67-80: files_to_delete
files_to_delete(fs, T) == get_project_files(fs) \ DOMAIN T.file_snapshots

\* restore_service.py 89-102, the part of one iteration that can raise:
\* mkdir(parents=True, exist_ok=True) on a parent that is a file, and
\* open(file_path, "w") on a directory.
WriteRaises(fs, ds, bl, T, p) ==
    IF Parent(p) \in DOMAIN fs THEN TRUE
    ELSE load_file_snapshot(bl, T.file_snapshots[p]) # None /\ p \in ds

\* What restore_checkpoint run from start to end makes of the live files
\* and of the checkpoint store (restore_service.py 54-104 as one function).
RestoredFiles(fs, bl, T) ==
    LET keep == {p \in DOMAIN fs : is_ignored(p) \/ p \in DOMAIN T.file_snapshots}
        made == {p \in DOMAIN T.file_snapshots :
                    load_file_snapshot(bl, T.file_snapshots[p]) # None}
    IN  [p \in keep \cup made |->
            IF p \in made THEN load_file_snapshot(bl, T.file_snapshots[p])
            ELSE fs[p]]

PrunedStore(cps, T) ==
    [i \in DOMAIN cps \ checkpoints_to_delete(cps, T) |-> cps[i]]

\* models.CodeChange (the diff text, a rendering of the two contents, is
\* left out)
CodeChange(p, t, old, new) ==
    [file_path |-> p, change_type |-> t, old_content |-> old, new_content |-> new]

\* "return None" of _compare_content: no change for the path
NoChange == CodeChange(None, "none", None, None)

\* (mutant) the branches for one-sided content exchanged
_compare_content_swapped(p, old, new) ==
    IF old # None /\ new # None
    THEN IF old = new THEN NoChange ELSE CodeChange(p, "modified", old, new)
    ELSE IF old # None /\ new = None THEN CodeChange(p, "added", None, old)
    ELSE IF old = None /\ new # None THEN CodeChange(p, "deleted", new, None)
    ELSE NoChange

\* (mutant) the test for equal contents left out
_compare_content_untested(p, old, new) ==
    IF old # None /\ new # None THEN CodeChange(p, "modified", old, new)
    ELSE IF old # None /\ new = None THEN CodeChange(p, "deleted", old, None)
    ELSE IF old = None /\ new # None THEN CodeChange(p, "added", None, new)
    ELSE NoChange

\* ComparisonService._compare_content
_compare_content(p, old, new) ==
    IF old # None /\ new # None
    THEN IF old = new THEN NoChange ELSE CodeChange(p, "modified", old, new)
    ELSE IF old # None /\ new = None THEN CodeChange(p, "deleted", old, None)
    ELSE IF old = None /\ new # None THEN CodeChange(p, "added", None, new)
    ELSE NoChange

\* dict.get on file_snapshots
snapshot_get(T, p) ==
    IF p \in DOMAIN T.file_snapshots THEN T.file_snapshots[p] ELSE None

\* (mutant) a blob that loads as the empty text is taken as a missing one
_compare_files_nonempty(bl, p, old_content_hash, new_content_hash) ==
    _compare_content(p,
        IF old_content_hash # None /\ load_file_snapshot(bl, old_content_hash) # ""
        THEN load_file_snapshot(bl, old_content_hash) ELSE None,
        IF new_content_hash # None /\ load_file_snapshot(bl, new_content_hash) # ""
        THEN load_file_snapshot(bl, new_content_hash) ELSE None)

\* ComparisonService._compare_files
_compare_files(bl, p, old_content_hash, new_content_hash) ==
    _compare_content(p,
        IF old_content_hash # None
        THEN load_file_snapshot(bl, old_content_hash) ELSE None,
        IF new_content_hash # None
        THEN load_file_snapshot(bl, new_content_hash) ELSE None)

\* The value of a comparison: the error raised, or the list of changes
Compared(r, ch) == [result |-> r, changes |-> ch]

\* (mutant) all_files is the key set of the first checkpoint only
changes_of_first(bl, T1, T2) ==
    {_compare_files(bl, p, snapshot_get(T1, p), snapshot_get(T2, p)) :
        p \in DOMAIN T1.file_snapshots} \ {NoChange}

\* comparison_service.py 136-149: the loop over all_files
changes_between(bl, T1, T2) ==
    {_compare_files(bl, p, snapshot_get(T1, p), snapshot_get(T2, p)) :
        p \in DOMAIN T1.file_snapshots \cup DOMAIN T2.file_snapshots} \ {NoChange}

\* ComparisonService.compare_checkpoints
compare_checkpoints(cps, bl, a, b) ==
    IF LoadFails(cps, {a, b} \cap DOMAIN cps)
    THEN Compared("ComparisonError", {})
    ELSE IF a \notin DOMAIN cps \/ b \notin DOMAIN cps
    THEN Compared("ComparisonError", {})
    ELSE Compared("ok", changes_between(bl, cps[a], cps[b]))

\* CheckpointComparator.compare_checkpoints (comparator.py, behind
\* CheckpointSystem.compare_checkpoints and the command line)
comparator_compare_checkpoints(cps, bl, a, b) ==
    IF LoadFails(cps, {a, b} \cap DOMAIN cps) THEN Compared("ok", {})
    ELSE IF a \notin DOMAIN cps \/ b \notin DOMAIN cps THEN Compared("ok", {})
    ELSE Compared("ok", changes_between(bl, cps[a], cps[b]))

\* (mutant) the live content is whatever bytes the file holds
current_changes_any_bytes(bl, fs, T) ==
    {_compare_content(p,
        IF snapshot_get(T, p) # None
        THEN load_file_snapshot(bl, snapshot_get(T, p)) ELSE None,
        IF p \in get_project_files(fs) THEN read_any_bytes(fs, p) ELSE None) :
        p \in DOMAIN T.file_snapshots \cup get_project_files(fs)} \ {NoChange}

\* comparison_service.py 172-204: the loop of compare_with_current
current_changes(bl, fs, T) ==
    {_compare_content(p,
        IF snapshot_get(T, p) # None
        THEN load_file_snapshot(bl, snapshot_get(T, p)) ELSE None,
        IF p \in get_project_files(fs) THEN read_file_content(fs, p) ELSE None) :
        p \in DOMAIN T.file_snapshots \cup get_project_files(fs)} \ {NoChange}

\* ComparisonService.compare_with_current
compare_with_current(cps, bl, fs, i) ==
    IF LoadFails(cps, {i} \cap DOMAIN cps) THEN Compared("ComparisonError", {})
    ELSE IF i \notin DOMAIN cps THEN Compared("ComparisonError", {})
    ELSE Compared("ok", current_changes(bl, fs, cps[i]))

\* The orders in which glob("*.json") can enumerate the manifest files
Enumerations(cps) ==
    {s \in [1..Cardinality(DOMAIN cps) -> DOMAIN cps] :
        \A i \in DOMAIN cps : \E k \in DOMAIN s : s[k] = i}

Position(s, i) == CHOOSE k \in DOMAIN s : s[k] = i

\* sorted(checkpoints, key=lambda c: c.timestamp): a stable sort, manifests
\* with equal timestamps stay in the order of the enumeration s
sorted_by_timestamp(cps, s) ==
    [k \in DOMAIN s |->
        CHOOSE i \in DOMAIN cps :
            Cardinality({j \in DOMAIN cps :
                \/ cps[j].timestamp < cps[i].timestamp
                \/ /\ cps[j].timestamp = cps[i].timestamp
                   /\ Position(s, j) < Position(s, i)}) = k - 1]

\* StorageManager.list_checkpoints, as the ids of the manifests returned
list_checkpoints(cps, s) == sorted_by_timestamp(cps, s)

NoError == "none"

NoLast ==
    [op |-> "none", target |-> NoId, result |-> "none", value |-> NoCheckpoint,
     cause |-> NoError]

NoPrev == [phase |-> "none", target |-> NoId, files |-> EmptyMap,
           checkpoints |-> EmptyMap, before |-> EmptyMap]

NoAnswer ==
    [op |-> "none", a |-> NoId, b |-> NoId, arg |-> None, result |-> "none",
     changes |-> {}, list |-> <<>>, fault |-> NoError]

\* FileMonitorService.__init__; touched is history: the files created,
\* modified or deleted since start_monitoring
NoMonitor ==
    [is_monitoring |-> FALSE, initial_file_states |-> [p \in {} |-> 0],
     changed_files |-> {}, touched |-> {}]

\* The two callers of save_file_snapshot that run at the same time
Callers == {"A", "B"}

\* A caller outside save_file_snapshot
NoRacer == [at |-> "out", content |-> <<>>, offset |-> 0, returned |-> "none"]

NoRacers == [k \in Callers |-> NoRacer]

\* A file that does not exist
Absent == <<"absent">>

\* A directory with nothing in it
NoTree == [files |-> EmptyMap, dirs |-> {}]

\* The services constructed over an empty store and an empty tree
Constructed ==
    /\ files = EmptyMap
    /\ dirs = {}
    /\ checkpoints = EmptyMap
    /\ blobs = EmptyMap
    /\ now = 0
    /\ pc = "idle"
    /\ cp = NoCheckpoint
    /\ todo = {}
    /\ prune = {}
    /\ last = NoLast
    /\ pre = EmptyMap
    /\ issued = NoId
    /\ prev = NoPrev
    /\ retry = NoPrev
    /\ answer = NoAnswer
    /\ stored = {}
    /\ elsewhere = NoTree

Init ==
    /\ project \in Projects
    /\ Constructed
    /\ config = Config({}, default_max_file_size)
    /\ strays = {}
    /\ mtimes = EmptyMap
    /\ monitor = NoMonitor
    /\ racers = NoRacers
    /\ blobfile = Absent

\* ------------------------------------------------------------ environment
Tick ==
    /\ pc = "idle"
    /\ now < MaxClock
    /\ now' = now + 1
    /\ last' = NoLast
    /\ pre' = EmptyMap
    /\ prev' = NoPrev
    /\ retry' = NoPrev
    /\ answer' = NoAnswer
    /\ UNCHANGED <<project, files, dirs, checkpoints, blobs, pc, cp, todo, prune, issued>>
    /\ UNCHANGED <<aside, stored>>

\* The user writes a file (creating its directory), between operations.
UserWrite(p, v) ==
    /\ pc = "idle"
    /\ p \notin dirs
    /\ Parent(p) \notin DOMAIN files
    /\ IF p \in DOMAIN files THEN files[p] # v ELSE TRUE
    /\ files' = (p :> v) @@ files
    /\ dirs' = IF Parent(p) = ROOT THEN dirs ELSE dirs \cup {Parent(p)}
    /\ last' = NoLast
    /\ pre' = EmptyMap
    /\ prev' = NoPrev
    /\ retry' = NoPrev
    /\ answer' = NoAnswer
    /\ UNCHANGED <<project, checkpoints, blobs, now, pc, cp, todo, prune, issued>>
    /\ UNCHANGED <<aside, stored>>

UserDelete(p) ==
    /\ pc = "idle"
    /\ p \in DOMAIN files
    /\ files' = Remove(files, p)
    /\ last' = NoLast
    /\ pre' = EmptyMap
    /\ prev' = NoPrev
    /\ retry' = NoPrev
    /\ answer' = NoAnswer
    /\ UNCHANGED <<project, dirs, checkpoints, blobs, now, pc, cp, todo, prune, issued>>
    /\ UNCHANGED <<aside, stored>>

UserRmdir(d) ==
    /\ pc = "idle"
    /\ d \in dirs
    /\ \A p \in DOMAIN files : Parent(p) # d
    /\ dirs' = dirs \ {d}
    /\ last' = NoLast
    /\ pre' = EmptyMap
    /\ prev' = NoPrev
    /\ retry' = NoPrev
    /\ answer' = NoAnswer
    /\ UNCHANGED <<project, files, checkpoints, blobs, now, pc, cp, todo, prune, issued>>
    /\ UNCHANGED <<aside, stored>>

\* ------------------------------------------------------ create_checkpoint
\* checkpoint_service.py 68-76: allocate the id, construct the Checkpoint
\* (timestamp = datetime.now()), enumerate the project files.
CreateStart ==
    /\ pc = "idle"
    /\ get_next_checkpoint_id(checkpoints) <= MaxId
    /\ cp' = Checkpoint(get_next_checkpoint_id(checkpoints), now)
    /\ todo' = get_project_files(files)
    /\ pc' = "c_files"
    /\ pre' = checkpoints
    /\ last' = NoLast
    /\ prev' = NoPrev
    /\ retry' = NoPrev
    /\ answer' = NoAnswer
    /\ UNCHANGED <<project, files, dirs, checkpoints, blobs, now, prune, issued>>
    /\ UNCHANGED <<aside, stored>>

\* (mutant) the file is moved into the store, not copied
CreateFileMoving(p) ==
    /\ pc = "c_files"
    /\ p \in todo
    /\ todo' = todo \ {p}
    /\ LET content == read_file_content(files, p) IN
         IF content # None
         THEN /\ blobs' = save_file_snapshot(blobs, content)
              /\ stored' = stored \cup {content}
              /\ files' = Remove(files, p)
              /\ cp' = [cp EXCEPT !.file_snapshots =
                           (p :> _get_file_hash(content)) @@ @]
         ELSE UNCHANGED <<blobs, cp, stored, files>>
    /\ UNCHANGED <<project, dirs, checkpoints, now, pc, prune, last, pre, issued, prev, retry, answer>>
    /\ UNCHANGED aside

\* checkpoint_service.py 78-83: one iteration of the loop over project_files
CreateFile(p) ==
    /\ pc = "c_files"
    /\ p \in todo
    /\ todo' = todo \ {p}
    /\ LET content == read_file_content(files, p) IN
         IF content # None
         THEN /\ blobs' = save_file_snapshot(blobs, content)
              /\ stored' = stored \cup {content}
              /\ cp' = [cp EXCEPT !.file_snapshots =
                           (p :> _get_file_hash(content)) @@ @]
         ELSE UNCHANGED <<blobs, cp, stored>>
    /\ UNCHANGED <<project, files, dirs, checkpoints, now, pc, prune, last, pre, issued, prev, retry, answer>>
    /\ UNCHANGED aside

\* storage.py 38: open(checkpoint_path, "w") creates the manifest file
CreateOpen ==
    /\ pc = "c_files"
    /\ todo = {}
    /\ checkpoints' = (cp.id :> PartialFile(cp.id)) @@ checkpoints
    /\ pc' = "c_dump"
    /\ UNCHANGED <<project, files, dirs, blobs, now, cp, todo, prune, last, pre, issued, prev, retry, answer>>
    /\ UNCHANGED <<aside, stored>>

\* storage.py 39 and checkpoint_service.py 88: json.dump completes, the
\* checkpoint is returned.
CreateDump ==
    /\ pc = "c_dump"
    /\ checkpoints' = (cp.id :> cp) @@ Remove(checkpoints, cp.id)
    /\ pc' = "idle"
    /\ last' = [op |-> "create", target |-> cp.id, result |-> "ok", value |-> cp,
                cause |-> NoError]
    /\ issued' = IF cp.id > issued THEN cp.id ELSE issued
    /\ cp' = NoCheckpoint
    /\ UNCHANGED <<project, files, dirs, blobs, now, todo, prune, pre, prev, retry, answer>>
    /\ UNCHANGED <<aside, stored>>

\* What a step of the try block of create_checkpoint can raise: the walk,
\* a read or a blob write fail with an OSError; json.dump fails with an
\* OSError or, on a key it cannot serialise, with a TypeError.
CreateRaises(at) ==
    IF at = "c_files" THEN {"OSError"}
    ELSE IF at = "c_dump" THEN {"OSError", "TypeError"}
    ELSE {}

\* (mutant) "except OSError": any other exception leaves as it is
except_OSError(e) ==
    IF e = "OSError" THEN [result |-> "CheckpointError", cause |-> e]
    ELSE [result |-> e, cause |-> NoError]

\* checkpoint_service.py 90-94: "except Exception as e: raise
\* CheckpointError(...) from e"
except_Exception(e) == [result |-> "CheckpointError", cause |-> e]

\* checkpoint_service.py 66-94: a step inside the try block raises e
CreateFail(e) ==
    /\ pc \in {"c_files", "c_dump"}
    /\ e \in CreateRaises(pc)
    /\ pc' = "idle"
    /\ todo' = {}
    /\ cp' = NoCheckpoint
    /\ last' = [op |-> "create", target |-> NoId,
                result |-> except_Exception(e).result, value |-> NoCheckpoint,
                cause |-> except_Exception(e).cause]
    /\ UNCHANGED <<project, files, dirs, checkpoints, blobs, now, prune, pre, issued, prev, retry, answer>>
    /\ UNCHANGED <<aside, stored>>

\* ----------------------------------------------------- restore_checkpoint
\* An I/O error of the device or the end of the process, not a condition of
\* the tree or the store
Interrupted == "interrupted"

RestoreError(t) ==
    [op |-> "restore", target |-> t, result |-> "RestoreError",
     value |-> NoCheckpoint, cause |-> NoError]

\* restore_service.py 48-50 and 106-110: load_checkpoint returns None, the
\* RestoreError raised for it is caught and raised again as RestoreError.
RestoreNotFound(t) ==
    /\ pc = "idle"
    /\ t \notin DOMAIN checkpoints
    /\ last' = RestoreError(t)
    /\ pre' = EmptyMap
    /\ prev' = NoPrev
    /\ retry' = NoPrev
    /\ answer' = NoAnswer
    /\ UNCHANGED <<project, files, dirs, checkpoints, blobs, now, pc, cp, todo, prune, issued>>
    /\ UNCHANGED <<aside, stored>>

\* restore_service.py 48 or 55: a manifest file that does not parse
RestoreLoadFail(t) ==
    /\ pc = "idle"
    /\ t \in DOMAIN checkpoints
    /\ LoadFails(checkpoints, DOMAIN checkpoints)
    /\ last' = RestoreError(t)
    /\ pre' = EmptyMap
    /\ prev' = NoPrev
    /\ retry' = NoPrev
    /\ answer' = NoAnswer
    /\ UNCHANGED <<project, files, dirs, checkpoints, blobs, now, pc, cp, todo, prune, issued>>
    /\ UNCHANGED <<aside, stored>>

\* restore_service.py 48-60: load the target, list, select what to delete
RestoreStart(t) ==
    /\ pc = "idle"
    /\ t \in DOMAIN checkpoints
    /\ ~LoadFails(checkpoints, DOMAIN checkpoints)
    /\ cp' = checkpoints[t]
    /\ prune' = checkpoints_to_delete(checkpoints, checkpoints[t])
    /\ todo' = {}
    /\ pc' = "r_prune"
    /\ pre' = checkpoints
    /\ last' = NoLast
    /\ prev' = IF prev.target = t /\ prev.phase \in {"done", "again_done"}
               THEN [prev EXCEPT !.phase = "again"]
               ELSE NoPrev
    /\ retry' = IF retry.target = t /\ retry.phase = "interrupted"
                THEN [retry EXCEPT !.phase = "rerun"]
                ELSE [phase |-> "first", target |-> t,
                      files |-> RestoredFiles(files, blobs, checkpoints[t]),
                      checkpoints |-> PrunedStore(checkpoints, checkpoints[t]),
                      before |-> files]
    /\ answer' = NoAnswer
    /\ UNCHANGED <<project, files, dirs, checkpoints, blobs, now, issued>>
    /\ UNCHANGED <<aside, stored>>

\* (mutant) the blobs of the pruned manifest are unlinked with it
RestorePruneWithBlobs(i) ==
    /\ pc = "r_prune"
    /\ i \in prune
    /\ \A j \in prune : pre[i].timestamp <= pre[j].timestamp
    /\ checkpoints' = Remove(checkpoints, i)
    /\ blobs' = [h \in DOMAIN blobs \
                    {checkpoints[i].file_snapshots[p] :
                        p \in DOMAIN checkpoints[i].file_snapshots} |-> blobs[h]]
    /\ prune' = prune \ {i}
    /\ UNCHANGED <<project, files, dirs, now, pc, cp, todo, last, pre, issued, prev,
                   retry, answer>>
    /\ UNCHANGED <<aside, stored>>

\* restore_service.py 62-65: one iteration, in list_checkpoints order
RestorePrune(i) ==
    /\ pc = "r_prune"
    /\ i \in prune
    /\ \A j \in prune : pre[i].timestamp <= pre[j].timestamp
    /\ checkpoints' = Remove(checkpoints, i)
    /\ prune' = prune \ {i}
    /\ UNCHANGED <<project, files, dirs, blobs, now, pc, cp, todo, last, pre, issued, prev,
                   retry, answer>>
    /\ UNCHANGED <<aside, stored>>

\* restore_service.py 67-80: enumerate the live tree, compute the surplus
RestoreEnumerate ==
    /\ pc = "r_prune"
    /\ prune = {}
    /\ todo' = files_to_delete(files, cp)
    /\ pc' = "r_delete"
    /\ UNCHANGED <<project, files, dirs, checkpoints, blobs, now, cp, prune, last, pre,
                   issued, prev, retry, answer, answer>>
    /\ UNCHANGED <<aside, stored>>

\* restore_service.py 83-86: one iteration
RestoreDelete(p) ==
    /\ pc = "r_delete"
    /\ p \in todo
    /\ files' = Remove(files, p)
    /\ todo' = todo \ {p}
    /\ UNCHANGED <<project, dirs, checkpoints, blobs, now, pc, cp, prune, last, pre, issued,
                   prev, retry, answer>>
    /\ UNCHANGED <<aside, stored>>

\* restore_service.py 89-92: the loop over file_snapshots.items() begins
RestoreMaterialize ==
    /\ pc = "r_delete"
    /\ todo = {}
    /\ todo' = DOMAIN cp.file_snapshots
    /\ pc' = "r_write"
    /\ UNCHANGED <<project, files, dirs, checkpoints, blobs, now, cp, prune, last, pre,
                   issued, prev, retry, answer, answer>>
    /\ UNCHANGED <<aside, stored>>

\* (mutant) a file that exists is not overwritten
RestoreWriteIfAbsent(p) ==
    /\ pc = "r_write"
    /\ p \in todo
    /\ ~WriteRaises(files, dirs, blobs, cp, p)
    /\ dirs' = IF Parent(p) = ROOT THEN dirs ELSE dirs \cup {Parent(p)}
    /\ files' = IF load_file_snapshot(blobs, cp.file_snapshots[p]) # None
                   /\ p \notin DOMAIN files
                THEN (p :> load_file_snapshot(blobs, cp.file_snapshots[p])) @@ files
                ELSE files
    /\ todo' = todo \ {p}
    /\ UNCHANGED <<project, checkpoints, blobs, now, pc, cp, prune, last, pre,
                   issued, prev, retry, answer, answer>>
    /\ UNCHANGED <<aside, stored>>

\* restore_service.py 93-102: one iteration that does not raise
RestoreWrite(p) ==
    /\ pc = "r_write"
    /\ p \in todo
    /\ ~WriteRaises(files, dirs, blobs, cp, p)
    /\ dirs' = IF Parent(p) = ROOT THEN dirs ELSE dirs \cup {Parent(p)}
    /\ files' = IF load_file_snapshot(blobs, cp.file_snapshots[p]) # None
                THEN (p :> load_file_snapshot(blobs, cp.file_snapshots[p])) @@ files
                ELSE files
    /\ todo' = todo \ {p}
    /\ UNCHANGED <<project, checkpoints, blobs, now, pc, cp, prune, last, pre, issued, prev,
                   retry, answer>>
    /\ UNCHANGED <<aside, stored>>

\* restore_service.py 93-102 raising, and 106-110
RestoreWriteError(p) ==
    /\ pc = "r_write"
    /\ p \in todo
    /\ WriteRaises(files, dirs, blobs, cp, p)
    /\ dirs' = IF Parent(p) = ROOT \/ Parent(p) \in DOMAIN files
               THEN dirs ELSE dirs \cup {Parent(p)}
    /\ pc' = "idle"
    /\ last' = [RestoreError(cp.id) EXCEPT !.cause =
                  IF Parent(p) \in DOMAIN files THEN "FileExistsError"
                  ELSE "IsADirectoryError"]
    /\ cp' = NoCheckpoint
    /\ todo' = {}
    /\ prune' = {}
    /\ prev' = NoPrev
    /\ retry' = [retry EXCEPT !.phase = "interrupted"]
    /\ UNCHANGED <<project, files, checkpoints, blobs, now, pre, issued, answer>>
    /\ UNCHANGED <<aside, stored>>

\* (mutant) the restore is recorded in the manifest of its target
RestoreReturnRecorded ==
    /\ pc = "r_write"
    /\ todo = {}
    /\ pc' = "idle"
    /\ checkpoints' = [checkpoints EXCEPT ![cp.id].restored_from = cp.id]
    /\ last' = [op |-> "restore", target |-> cp.id, result |-> "true",
                value |-> NoCheckpoint, cause |-> NoError]
    /\ prev' = NoPrev
    /\ retry' = NoPrev
    /\ cp' = NoCheckpoint
    /\ prune' = {}
    /\ UNCHANGED <<project, files, dirs, blobs, now, todo, pre, issued, answer>>
    /\ UNCHANGED <<aside, stored>>

\* restore_service.py 104: return True
RestoreReturn ==
    /\ pc = "r_write"
    /\ todo = {}
    /\ pc' = "idle"
    /\ last' = [op |-> "restore", target |-> cp.id, result |-> "true",
                value |-> NoCheckpoint, cause |-> NoError]
    /\ prev' = IF prev.phase = "again"
               THEN [prev EXCEPT !.phase = "again_done"]
               ELSE [phase |-> "done", target |-> cp.id, files |-> files,
                     checkpoints |-> checkpoints, before |-> EmptyMap]
    /\ retry' = [retry EXCEPT !.phase =
                    IF @ = "rerun" THEN "rerun_done" ELSE "first_done"]
    /\ cp' = NoCheckpoint
    /\ prune' = {}
    /\ UNCHANGED <<project, files, dirs, checkpoints, blobs, now, todo, pre, issued, answer>>
    /\ UNCHANGED <<aside, stored>>

\* restore_service.py 106-110: an I/O error at any step, or the process
\* stopped there; what was done so far stays done.
RestoreInterrupt ==
    /\ pc \in {"r_prune", "r_delete", "r_write"}
    /\ pc' = "idle"
    /\ last' = [RestoreError(cp.id) EXCEPT !.cause = Interrupted]
    /\ cp' = NoCheckpoint
    /\ todo' = {}
    /\ prune' = {}
    /\ prev' = NoPrev
    /\ retry' = [retry EXCEPT !.phase = "interrupted"]
    /\ UNCHANGED <<project, files, dirs, checkpoints, blobs, now, pre, issued, answer>>
    /\ UNCHANGED <<aside, stored>>

\* ------------------------------------------------- queries, content store
\* The addresses the content store can hold
Addresses == {_get_file_hash(c) : c \in Strings}

Answer(op, a, b, arg, r, ch, l) ==
    [op |-> op, a |-> a, b |-> b, arg |-> arg, result |-> r, changes |-> ch,
     list |-> l, fault |-> NoError]

\* ComparisonService.compare_checkpoints(a, b), called between operations
CompareCheckpoints(a, b) ==
    /\ pc = "idle"
    /\ answer' = Answer("compare_checkpoints", a, b, None,
                        compare_checkpoints(checkpoints, blobs, a, b).result,
                        compare_checkpoints(checkpoints, blobs, a, b).changes, <<>>)
    /\ last' = NoLast
    /\ pre' = EmptyMap
    /\ UNCHANGED <<project, files, dirs, checkpoints, blobs, now, pc, cp, todo, prune,
                   issued, prev, retry>>
    /\ UNCHANGED <<aside, stored>>

\* CheckpointSystem.compare_checkpoints(a, b): the command line's compare
ComparatorCompareCheckpoints(a, b) ==
    /\ pc = "idle"
    /\ answer' = Answer("comparator.compare_checkpoints", a, b, None,
                        comparator_compare_checkpoints(checkpoints, blobs, a, b).result,
                        comparator_compare_checkpoints(checkpoints, blobs, a, b).changes,
                        <<>>)
    /\ last' = NoLast
    /\ pre' = EmptyMap
    /\ UNCHANGED <<project, files, dirs, checkpoints, blobs, now, pc, cp, todo, prune,
                   issued, prev, retry>>
    /\ UNCHANGED <<aside, stored>>

\* ComparisonService.compare_with_current(i)
CompareWithCurrent(i) ==
    /\ pc = "idle"
    /\ answer' = Answer("compare_with_current", i, NoId, None,
                        compare_with_current(checkpoints, blobs, files, i).result,
                        compare_with_current(checkpoints, blobs, files, i).changes,
                        <<>>)
    /\ last' = NoLast
    /\ pre' = EmptyMap
    /\ UNCHANGED <<project, files, dirs, checkpoints, blobs, now, pc, cp, todo, prune,
                   issued, prev, retry>>
    /\ UNCHANGED <<aside, stored>>

\* StorageManager.list_checkpoints(), the directory enumerated in order s;
\* json.load is called on every *.json file and raises on a manifest file
\* that is not complete and on a file that is not a manifest.
ListCheckpoints(s) ==
    /\ pc = "idle"
    /\ s \in Enumerations(checkpoints)
    /\ answer' = IF LoadFails(checkpoints, DOMAIN checkpoints) \/ strays # {}
                 THEN Answer("list_checkpoints", NoId, NoId, None, "JSONDecodeError",
                             {}, <<>>)
                 ELSE Answer("list_checkpoints", NoId, NoId, None, "ok", {},
                             list_checkpoints(checkpoints, s))
    /\ last' = NoLast
    /\ pre' = EmptyMap
    /\ UNCHANGED <<project, files, dirs, checkpoints, blobs, now, pc, cp, todo, prune,
                   issued, prev, retry>>
    /\ UNCHANGED <<aside, stored>>

\* StorageManager.load_checkpoint(checkpoint_id), called directly: None for
\* an id with no manifest file
LoadCheckpoint(i) ==
    /\ pc = "idle"
    /\ answer' = IF i \notin DOMAIN checkpoints
                 THEN Answer("load_checkpoint", i, NoId, None, "None", {}, <<>>)
                 ELSE IF LoadFails(checkpoints, {i})
                 THEN Answer("load_checkpoint", i, NoId, None, "JSONDecodeError",
                             {}, <<>>)
                 ELSE Answer("load_checkpoint", i, NoId, None, "ok", {}, <<i>>)
    /\ last' = NoLast
    /\ pre' = EmptyMap
    /\ UNCHANGED <<project, files, dirs, checkpoints, blobs, now, pc, cp, todo, prune,
                   issued, prev, retry>>
    /\ UNCHANGED <<aside, stored>>

\* StorageManager.save_file_snapshot(content), called directly
SaveFileSnapshot(content) ==
    /\ pc = "idle"
    /\ blobs' = save_file_snapshot(blobs, content)
    /\ stored' = stored \cup {content}
    /\ answer' = Answer("save_file_snapshot", NoId, NoId, content,
                        _get_file_hash(content), {}, <<>>)
    /\ last' = NoLast
    /\ pre' = EmptyMap
    /\ UNCHANGED <<project, files, dirs, checkpoints, now, pc, cp, todo, prune, issued,
                   prev, retry>>
    /\ UNCHANGED aside

\* StorageManager.load_file_snapshot(content_hash), called directly
LoadFileSnapshot(content_hash) ==
    /\ pc = "idle"
    /\ answer' = Answer("load_file_snapshot", NoId, NoId, content_hash,
                        load_file_snapshot(blobs, content_hash), {}, <<>>)
    /\ last' = NoLast
    /\ pre' = EmptyMap
    /\ UNCHANGED <<project, files, dirs, checkpoints, blobs, now, pc, cp, todo, prune,
                   issued, prev, retry>>
    /\ UNCHANGED <<aside, stored>>

\* ------------------------------------------- restore into another directory
\* The (path, bytes) pairs written under the restore_path R
ElsewhereProject == {<<"a", "x">>, <<"a/b", "x">>, <<"c", "">>}

\* A file is written under R (creating its directory), between operations.
ElsewhereWrite(p, v) ==
    /\ pc = "idle"
    /\ p \notin elsewhere.dirs
    /\ Parent(p) \notin DOMAIN elsewhere.files
    /\ IF p \in DOMAIN elsewhere.files THEN elsewhere.files[p] # v ELSE TRUE
    /\ elsewhere' =
          [files |-> (p :> v) @@ elsewhere.files,
           dirs |-> IF Parent(p) = ROOT THEN elsewhere.dirs
                    ELSE elsewhere.dirs \cup {Parent(p)}]
    /\ answer' = NoAnswer
    /\ pre' = EmptyMap
    /\ UNCHANGED <<project, files, dirs, checkpoints, blobs, now, pc, cp, todo, prune,
                   last, issued, prev, retry, stored>>
    /\ UNCHANGED <<config, strays, mtimes, monitor, racers, blobfile>>

\* A file under R is deleted; its directory stays.
ElsewhereDelete(p) ==
    /\ pc = "idle"
    /\ p \in DOMAIN elsewhere.files
    /\ elsewhere' = [elsewhere EXCEPT !.files = Remove(@, p)]
    /\ answer' = NoAnswer
    /\ pre' = EmptyMap
    /\ UNCHANGED <<project, files, dirs, checkpoints, blobs, now, pc, cp, todo, prune,
                   last, issued, prev, retry, stored>>
    /\ UNCHANGED <<config, strays, mtimes, monitor, racers, blobfile>>

\* The parent directories mkdir(parents=True) makes for the paths S
Parents(S) == {Parent(p) : p \in S} \ {ROOT}

\* restore_service.py 83-86: the tree without its surplus files
WithoutSurplus(fs, T) == [p \in DOMAIN fs \ files_to_delete(fs, T) |-> fs[p]]

\* restore_service.py 89-102: the target paths at which the loop raises
Unwritable(tree, bl, T) ==
    {p \in DOMAIN T.file_snapshots :
        WriteRaises(WithoutSurplus(tree.files, T), tree.dirs, bl, T, p)}

\* (mutant) the surplus is computed from, and deleted in, the project tree
RestoreIntoScanningProject(t, W) ==
    /\ pc = "idle"
    /\ t \in DOMAIN checkpoints
    /\ ~LoadFails(checkpoints, DOMAIN checkpoints)
    /\ Unwritable(elsewhere, blobs, checkpoints[t]) = {}
    /\ W = DOMAIN checkpoints[t].file_snapshots
    /\ pre' = checkpoints
    /\ checkpoints' = PrunedStore(checkpoints, checkpoints[t])
    /\ files' = WithoutSurplus(files, checkpoints[t])
    /\ elsewhere' = [files |-> RestoredFiles(elsewhere.files, blobs, checkpoints[t]),
                     dirs |-> elsewhere.dirs \cup Parents(W)]
    /\ answer' = Answer("restore_checkpoint", t, NoId, None, "true", {}, <<>>)
    /\ UNCHANGED <<project, dirs, blobs, now, pc, cp, todo, prune, last, issued,
                   prev, retry, stored>>
    /\ UNCHANGED <<config, strays, mtimes, monitor, racers, blobfile>>

\* RestoreService.restore_checkpoint(t, restore_path=R), R outside the
\* project: the manifests after the target are unlinked, the surplus files
\* under R are deleted, the target paths W are written under R; the call
\* returns True when W is all of them and raises RestoreError at a path
\* that cannot be written.
RestoreInto(t, W) ==
    /\ pc = "idle"
    /\ t \in DOMAIN checkpoints
    /\ ~LoadFails(checkpoints, DOMAIN checkpoints)
    /\ pre' = checkpoints
    /\ checkpoints' = PrunedStore(checkpoints, checkpoints[t])
    /\ LET T == checkpoints[t]
           bad == Unwritable(elsewhere, blobs, T)
       IN  IF bad = {}
           THEN /\ W = DOMAIN T.file_snapshots
                /\ elsewhere' = [files |-> RestoredFiles(elsewhere.files, blobs, T),
                                 dirs |-> elsewhere.dirs \cup Parents(W)]
                /\ answer' = Answer("restore_checkpoint", t, NoId, None, "true",
                                    {}, <<>>)
           ELSE /\ W \subseteq DOMAIN T.file_snapshots \ bad
                /\ elsewhere' =
                      [files |->
                          [p \in W |-> load_file_snapshot(blobs, T.file_snapshots[p])]
                          @@ WithoutSurplus(elsewhere.files, T),
                       dirs |-> elsewhere.dirs \cup Parents(W)]
                /\ answer' = Answer("restore_checkpoint", t, NoId, None,
                                    "RestoreError", {}, <<>>)
    /\ UNCHANGED <<project, files, dirs, blobs, now, pc, cp, todo, prune, last, issued,
                   prev, retry, stored>>
    /\ UNCHANGED <<config, strays, mtimes, monitor, racers, blobfile>>

ElsewhereNext ==
    \/ Tick
    \/ \E e \in project : UserWrite(e[1], e[2])
    \/ \E e \in ElsewhereProject : ElsewhereWrite(e[1], e[2])
    \/ \E p \in Paths : ElsewhereDelete(p)
    \/ get_next_checkpoint_id(checkpoints) <= MaxStored /\ CreateStart
    \/ \E p \in Paths : CreateFile(p)
    \/ CreateOpen
    \/ CreateDump
    \/ \E t \in 1..MaxStored, W \in SUBSET Paths : RestoreInto(t, W)

ElsewhereSpec == Init /\ [][ElsewhereNext]_vars

\* ------------------------------------------------- the store inside the tree
\* With the default configuration the store is the directory .codesnap of
\* the project root, so os.walk(project_root) meets its files too.

\* The text json.dump writes into a manifest file
MANIFEST == "json"

StorePaths == checkpoint_paths \cup snapshot_paths

\* The files of .codesnap: one per manifest, one per blob
store_files(cps, bl) ==
    [p \in {checkpoint_path(i) : i \in DOMAIN cps}
            \cup {snapshot_path(h) : h \in DOMAIN bl} |->
        IF p \in checkpoint_paths THEN MANIFEST
        ELSE bl[CHOOSE h \in DOMAIN bl : p = snapshot_path(h)]]

\* os.walk(project_root): the live files and the files of the store
walk(fs, cps, bl) == fs @@ store_files(cps, bl)

\* checkpoint_service.py 76-83: file_snapshots after the loop over the files
\* get_project_files returned
captured(tree) ==
    [p \in {q \in get_project_files(tree) : read_file_content(tree, q) # None} |->
        _get_file_hash(read_file_content(tree, p))]

\* checkpoint_service.py 81: the content store after every save_file_snapshot
\* of the loop
saved(bl, tree) ==
    LET cs == {read_file_content(tree, p) : p \in DOMAIN captured(tree)}
    IN  [h \in DOMAIN bl \cup {_get_file_hash(c) : c \in cs} |->
            IF h \in DOMAIN bl THEN bl[h]
            ELSE CHOOSE c \in cs : _get_file_hash(c) = h]

\* CheckpointService.create_checkpoint run from start to end over the tree
\* that holds the store
CreateCheckpoint ==
    /\ pc = "idle"
    /\ get_next_checkpoint_id(checkpoints) <= MaxStored
    /\ LET tree == walk(files, checkpoints, blobs)
           i == get_next_checkpoint_id(checkpoints)
       IN  /\ checkpoints' =
                 (i :> [Checkpoint(i, now) EXCEPT !.file_snapshots = captured(tree)])
                 @@ checkpoints
           /\ blobs' = saved(blobs, tree)
           /\ stored' = stored \cup
                 {read_file_content(tree, p) : p \in DOMAIN captured(tree)}
           /\ answer' = Answer("create_checkpoint", i, NoId, None, "ok", {}, <<>>)
    /\ pre' = checkpoints
    /\ UNCHANGED <<project, files, dirs, now, pc, cp, todo, prune, last, issued,
                   prev, retry>>
    /\ UNCHANGED aside

\* restore_service.py 83-86: unlink of the surplus paths S that are files of
\* the store
without_manifests(cps, S) ==
    [i \in {j \in DOMAIN cps : checkpoint_path(j) \notin S} |-> cps[i]]

without_snapshots(bl, S) ==
    [h \in {g \in DOMAIN bl : snapshot_path(g) \notin S} |-> bl[h]]

\* restore_service.py 99-102: open(file_path, "w") and f.write for the paths
\* of text that are files of the store.  A manifest file that comes back
\* holds a text no save_checkpoint of this store wrote.
overwritten_snapshots(bl, text) ==
    [h \in DOMAIN bl \cup {g \in Digests : snapshot_path(g) \in DOMAIN text} |->
        IF snapshot_path(h) \in DOMAIN text THEN text[snapshot_path(h)] ELSE bl[h]]

overwritten_manifests(cps, text) ==
    [i \in DOMAIN cps \cup {j \in Ids : checkpoint_path(j) \in DOMAIN text} |->
        IF i \in DOMAIN cps THEN cps[i] ELSE PartialFile(i)]

outside_store(text) == [p \in DOMAIN text \ StorePaths |-> text[p]]

\* RestoreService.restore_checkpoint(t) run from start to end over the tree
\* that holds the store: prune, walk, delete the surplus, write the target
\* paths W; True when W is all of them, RestoreError at a path that cannot
\* be written.
RestoreCheckpoint(t) ==
    /\ pc = "idle"
    /\ t \in DOMAIN checkpoints
    /\ ~LoadFails(checkpoints, DOMAIN checkpoints)
    /\ pre' = checkpoints
    /\ \E W \in SUBSET DOMAIN checkpoints[t].file_snapshots :
       LET T == checkpoints[t]
           kept == PrunedStore(checkpoints, T)
           surplus == files_to_delete(walk(files, kept, blobs), T)
           cps == without_manifests(kept, surplus)
           bl == without_snapshots(blobs, surplus)
           bad == Unwritable([files |-> files, dirs |-> dirs], bl, T)
           text == IF bad = {} THEN RestoredFiles(files, bl, T)
                   ELSE [p \in {q \in W : load_file_snapshot(bl, T.file_snapshots[q])
                                              # None} |->
                            load_file_snapshot(bl, T.file_snapshots[p])]
                        @@ WithoutSurplus(files, T)
       IN  /\ IF bad = {} THEN W = DOMAIN T.file_snapshots
              ELSE W \subseteq DOMAIN T.file_snapshots \ bad
           /\ files' = outside_store(text)
           /\ dirs' = dirs \cup Parents(W \ StorePaths)
           /\ checkpoints' = overwritten_manifests(cps, text)
           /\ blobs' = overwritten_snapshots(bl, text)
           /\ answer' = Answer("restore_checkpoint", t, NoId, None,
                               IF bad = {} THEN "true" ELSE "RestoreError",
                               {}, <<>>)
    /\ UNCHANGED <<project, now, pc, cp, todo, prune, last, issued, prev, retry,
                   stored>>
    /\ UNCHANGED aside

InTreeNext ==
    \/ Tick
    \/ \E e \in project : UserWrite(e[1], e[2])
    \/ \E p \in Paths : UserDelete(p)
    \/ CreateCheckpoint
    \/ \E t \in 1..MaxStored : RestoreCheckpoint(t)

InTreeSpec == Init /\ [][InTreeNext]_vars

\* ------------------------------------- two save_file_snapshot calls at once
\* The contents the two callers put, as the chunks f.write hands to write(2)
MaxChunks == 2

Chunked == {<<>>, <<"x">>, <<"x", "\r\n">>}

\* The string the chunks make up
Joined(cs) ==
    CASE cs = <<>> -> ""
      [] cs = <<"x">> -> "x"
      [] cs = <<"x", "\r\n">> -> "x\r\n"

\* The bytes of a file that was cut to length 0 and then written past its end
Hole == "\\0"

\* pwrite(chunk) at offset k of a file with the cells f
WriteAt(f, k, chunk) ==
    [i \in 1..(IF k + 1 > Len(f) THEN k + 1 ELSE Len(f)) |->
        IF i = k + 1 THEN chunk ELSE IF i <= Len(f) THEN f[i] ELSE Hole]

\* storage.py 87-90: the hash is computed, "if not snapshot_path.exists()"
\* is evaluated; a caller that finds the blob returns its address
RaceExists(k) ==
    /\ racers[k].at = "call"
    /\ racers' = [racers EXCEPT ![k] =
          IF blobfile # Absent
          THEN [@ EXCEPT !.at = "done",
                         !.returned = _get_file_hash(Joined(racers[k].content))]
          ELSE [@ EXCEPT !.at = "open"]]
    /\ UNCHANGED <<project, files, dirs, checkpoints, blobs, now, pc, cp, todo, prune,
                   last, pre, issued, prev, retry, answer, stored>>
    /\ UNCHANGED <<config, strays, mtimes, monitor, blobfile, elsewhere>>

\* storage.py 91: open(snapshot_path, "w") creates the file or cuts it to
\* length 0; the caller's file offset is 0
RaceOpen(k) ==
    /\ racers[k].at = "open"
    /\ blobfile' = <<>>
    /\ racers' = [racers EXCEPT ![k] = [@ EXCEPT !.at = "write", !.offset = 0]]
    /\ UNCHANGED <<project, files, dirs, checkpoints, blobs, now, pc, cp, todo, prune,
                   last, pre, issued, prev, retry, answer, stored>>
    /\ UNCHANGED <<config, strays, mtimes, monitor, elsewhere>>

\* (mutant) the chunk goes to the end of the file, as with open(path, "a")
RaceWriteAtEnd(k) ==
    /\ racers[k].at = "write"
    /\ racers[k].offset < Len(racers[k].content)
    /\ blobfile' = Append(blobfile, racers[k].content[racers[k].offset + 1])
    /\ racers' = [racers EXCEPT ![k] = [@ EXCEPT !.offset = @ + 1]]
    /\ UNCHANGED <<project, files, dirs, checkpoints, blobs, now, pc, cp, todo, prune,
                   last, pre, issued, prev, retry, answer, stored>>
    /\ UNCHANGED <<config, strays, mtimes, monitor, elsewhere>>

\* storage.py 92: f.write(content), flushed one chunk at a time at the
\* caller's own file offset
RaceWrite(k) ==
    /\ racers[k].at = "write"
    /\ racers[k].offset < Len(racers[k].content)
    /\ blobfile' = WriteAt(blobfile, racers[k].offset,
                           racers[k].content[racers[k].offset + 1])
    /\ racers' = [racers EXCEPT ![k] = [@ EXCEPT !.offset = @ + 1]]
    /\ UNCHANGED <<project, files, dirs, checkpoints, blobs, now, pc, cp, todo, prune,
                   last, pre, issued, prev, retry, answer, stored>>
    /\ UNCHANGED <<config, strays, mtimes, monitor, elsewhere>>

\* storage.py 91-94: the with block closes the file, the address is returned
RaceReturn(k) ==
    /\ racers[k].at = "write"
    /\ racers[k].offset = Len(racers[k].content)
    /\ racers' = [racers EXCEPT ![k] =
          [@ EXCEPT !.at = "done",
                    !.returned = _get_file_hash(Joined(racers[k].content))]]
    /\ UNCHANGED <<project, files, dirs, checkpoints, blobs, now, pc, cp, todo, prune,
                   last, pre, issued, prev, retry, answer, stored>>
    /\ UNCHANGED <<config, strays, mtimes, monitor, blobfile, elsewhere>>

\* Two callers enter save_file_snapshot with the same content, over a store
\* that has the blob already or does not.
RaceInit ==
    /\ project = {}
    /\ Constructed
    /\ config = Config({}, default_max_file_size)
    /\ strays = {}
    /\ mtimes = EmptyMap
    /\ monitor = NoMonitor
    /\ \E c \in Chunked :
          /\ Len(c) <= MaxChunks
          /\ racers = [k \in Callers |-> [NoRacer EXCEPT !.at = "call", !.content = c]]
          /\ blobfile \in {Absent, c}

RaceNext ==
    \/ \E k \in Callers : RaceExists(k)
    \/ \E k \in Callers : RaceOpen(k)
    \/ \E k \in Callers : RaceWrite(k)
    \/ \E k \in Callers : RaceReturn(k)

RaceSpec == RaceInit /\ [][RaceNext]_vars

\* ------------------------------------------------------------------ export
MaxExported == 3

\* (mutant) every checkpoint visited becomes the reference of the next diff
reference_after_any(c, prev_checkpoint_id) == c.id

\* storage.py 254-256, 478-480: "if not checkpoint.restored_from:
\* prev_checkpoint_id = checkpoint.id"
reference_after(c, prev_checkpoint_id) ==
    IF c.restored_from = NoId THEN c.id ELSE prev_checkpoint_id

\* storage.py 158, 169-175, 212-218: the diff section of a checkpoint is
\* written under "if checkpoint.prompt" and "prev_checkpoint_id and
\* checkpoint_system and not checkpoint.restored_from"; NoId for no diff
diffed_against(c, prev_checkpoint_id) ==
    IF c.prompt /\ prev_checkpoint_id # NoId /\ c.restored_from = NoId
    THEN prev_checkpoint_id
    ELSE NoId

\* storage.py 152-256, 327-480: the loop over list_checkpoints() from
\* position k on, as the (checkpoint, reference of its diff) pairs written
RECURSIVE export_loop(_, _, _, _)
export_loop(cps, L, k, prev_checkpoint_id) ==
    IF k > Len(L) THEN <<>>
    ELSE <<[id |-> L[k], against |-> diffed_against(cps[L[k]], prev_checkpoint_id)]>>
         \o export_loop(cps, L, k + 1, reference_after(cps[L[k]], prev_checkpoint_id))

\* StorageManager._export_markdown and _export_html: prev_checkpoint_id = None
export(cps, s) == export_loop(cps, list_checkpoints(cps, s), 1, NoId)

\* StorageManager.save_checkpoint(checkpoint), called with a checkpoint that
\* has a prompt or not and records a restore of an earlier one or not
SaveCheckpoint(has_prompt, from) ==
    /\ pc = "idle"
    /\ get_next_checkpoint_id(checkpoints) <= MaxExported
    /\ from \in {NoId} \cup DOMAIN checkpoints
    /\ checkpoints' =
          (get_next_checkpoint_id(checkpoints) :>
             [Checkpoint(get_next_checkpoint_id(checkpoints), now)
                EXCEPT !.prompt = has_prompt, !.restored_from = from])
          @@ checkpoints
    /\ answer' = NoAnswer
    /\ UNCHANGED <<project, files, dirs, blobs, now, pc, cp, todo, prune, last, pre,
                   issued, prev, retry>>
    /\ UNCHANGED <<aside, stored>>

\* StorageManager.export_data(path, MARKDOWN or HTML), the directory
\* enumerated in order s
Export(s) ==
    /\ pc = "idle"
    /\ s \in Enumerations(checkpoints)
    /\ answer' = Answer("export_data", NoId, NoId, None, "ok", {},
                        export(checkpoints, s))
    /\ UNCHANGED <<project, files, dirs, checkpoints, blobs, now, pc, cp, todo, prune,
                   last, pre, issued, prev, retry>>
    /\ UNCHANGED <<aside, stored>>

ExportNext ==
    \/ Tick
    \/ \E has_prompt \in BOOLEAN, from \in 0..MaxExported : SaveCheckpoint(has_prompt, from)
    \/ \E s \in Enumerations(checkpoints) : Export(s)

ExportSpec == Init /\ [][ExportNext]_vars

\* -------------------------------------------- the checkpoints directory
\* A file <stem>.json that is not a manifest (a note in plain text) is put
\* into the checkpoints directory of a store whose checkpoints are made.
StrayFile(st) ==
    /\ pc = "idle"
    /\ st \in Stems \ strays
    /\ strays' = strays \cup {st}
    /\ answer' = NoAnswer
    /\ UNCHANGED <<project, files, dirs, checkpoints, blobs, now, pc, cp, todo, prune,
                   last, pre, issued, prev, retry, stored>>
    /\ UNCHANGED <<config, mtimes, monitor, racers, blobfile, elsewhere>>

\* StorageManager.get_next_checkpoint_id(), called directly
GetNextCheckpointId ==
    /\ pc = "idle"
    /\ answer' = Answer("get_next_checkpoint_id", get_next_checkpoint_id(checkpoints),
                        NoId, None, "ok", {}, <<>>)
    /\ UNCHANGED <<project, files, dirs, checkpoints, blobs, now, pc, cp, todo, prune,
                   last, pre, issued, prev, retry>>
    /\ UNCHANGED <<aside, stored>>

DirNext ==
    \/ Tick
    \/ strays = {} /\ \E has_prompt \in BOOLEAN : SaveCheckpoint(has_prompt, NoId)
    \/ \E st \in Stems : StrayFile(st)
    \/ \E s \in Enumerations(checkpoints) : ListCheckpoints(s)
    \/ GetNextCheckpointId

DirSpec == Init /\ [][DirNext]_vars

\* ------------------------------------------- the file service and the models
MaxCaptured == 1

\* The files of the project the file service is asked about
UnitPaths == {"main.py", "test.tmp", "temp_file.txt", ".venv/lib.py"}

UnitProject ==
    {<<"main.py", "">>, <<"main.py", "x">>, <<"main.py", "x\r\n">>, <<"main.py", BIN>>,
     <<"test.tmp", "x">>, <<"temp_file.txt", "x">>, <<".venv/lib.py", "x">>}

\* Config(ignore_patterns=..., max_file_size=...): the defaults, or custom
\* patterns and a size cap at and under the size of a file
UnitConfigs ==
    {Config(patterns, size) :
        patterns \in {{}, {"*.tmp", "temp_*"}}, size \in {0, 1, default_max_file_size}}

\* FileService.is_ignored(project_root / p)
IsIgnored(p) ==
    /\ pc = "idle"
    /\ answer' = Answer("is_ignored", NoId, NoId, p,
                        IF is_ignored(p) THEN "True" ELSE "False", {}, <<>>)
    /\ UNCHANGED <<project, files, dirs, checkpoints, blobs, now, pc, cp, todo, prune,
                   last, pre, issued, prev, retry>>
    /\ UNCHANGED <<aside, stored>>

\* FileService.read_file_content(project_root / p); stat, open or read may
\* raise e, and "except (UnicodeDecodeError, OSError): return None"
ReadFileContent(p, e) ==
    /\ pc = "idle"
    /\ e \in {NoError, "OSError"}
    /\ answer' = [Answer("read_file_content", NoId, NoId, p,
                         IF e = "OSError" THEN None ELSE read_file_content(files, p),
                         {}, <<>>) EXCEPT !.fault = e]
    /\ UNCHANGED <<project, files, dirs, checkpoints, blobs, now, pc, cp, todo, prune,
                   last, pre, issued, prev, retry>>
    /\ UNCHANGED <<aside, stored>>

\* The prompts a checkpoint is constructed with: none, one of at most 50
\* characters, one of more
Prompts == {None, "short prompt", "long prompt"}

\* models.py 41-58: Checkpoint(...) validates its fields; "name: str" has no
\* default, so a construction without a name raises, and a name that is
\* given is the name the checkpoint has
checkpoint_name(name) == IF name = None THEN "ValidationError" ELSE name

\* Checkpoint(id=i, prompt=prompt) and Checkpoint(id=i, name=name, prompt=prompt)
NewCheckpoint(i, name, prompt) ==
    /\ pc = "idle"
    /\ answer' = Answer("Checkpoint", i, NoId, prompt, checkpoint_name(name), {}, <<>>)
    /\ UNCHANGED <<project, files, dirs, checkpoints, blobs, now, pc, cp, todo, prune,
                   last, pre, issued, prev, retry>>
    /\ UNCHANGED <<aside, stored>>

UnitInit ==
    /\ project = UnitProject
    /\ Constructed
    /\ config \in UnitConfigs
    /\ strays = {}
    /\ mtimes = EmptyMap
    /\ monitor = NoMonitor
    /\ racers = NoRacers
    /\ blobfile = Absent

UnitNext ==
    \/ \E e \in project : UserWrite(e[1], e[2])
    \/ \E p \in UnitPaths : UserDelete(p)
    \/ get_next_checkpoint_id(checkpoints) <= MaxCaptured /\ CreateStart
    \/ \E p \in UnitPaths : CreateFile(p)
    \/ CreateOpen
    \/ CreateDump
    \/ \E p \in UnitPaths : IsIgnored(p)
    \/ \E p \in UnitPaths, e \in {NoError, "OSError"} : ReadFileContent(p, e)
    \/ \E name \in {None, "mine"}, prompt \in Prompts : NewCheckpoint(1, name, prompt)

UnitSpec == UnitInit /\ [][UnitNext]_vars

\* ------------------------------------------------------- the file monitor
MaxMtime == 3

\* The user writes a file while the monitor may be running; time passes, the
\* file's st_mtime is the time of the write
MonitoredWrite(p, v) ==
    /\ now < MaxMtime
    /\ now' = now + 1
    /\ files' = (p :> v) @@ files
    /\ mtimes' = (p :> now + 1) @@ mtimes
    /\ monitor' = [monitor EXCEPT !.touched =
                      IF monitor.is_monitoring THEN @ \cup {p} ELSE @]
    /\ answer' = NoAnswer
    /\ UNCHANGED <<project, dirs, checkpoints, blobs, pc, cp, todo, prune, last, pre,
                   issued, prev, retry, stored>>
    /\ UNCHANGED <<config, strays, racers, blobfile, elsewhere>>

\* The user deletes a file while the monitor may be running
MonitoredDelete(p) ==
    /\ p \in DOMAIN files
    /\ files' = Remove(files, p)
    /\ mtimes' = Remove(mtimes, p)
    /\ monitor' = [monitor EXCEPT !.touched =
                      IF monitor.is_monitoring THEN @ \cup {p} ELSE @]
    /\ answer' = NoAnswer
    /\ UNCHANGED <<project, dirs, checkpoints, blobs, now, pc, cp, todo, prune, last,
                   pre, issued, prev, retry, stored>>
    /\ UNCHANGED <<config, strays, racers, blobfile, elsewhere>>

\* FileMonitorService.start_monitoring: the st_mtime of every project file
\* is recorded over what initial_file_states held
StartMonitoring ==
    /\ monitor' = [is_monitoring |-> TRUE,
                   initial_file_states |->
                       [p \in get_project_files(files) |-> mtimes[p]]
                       @@ monitor.initial_file_states,
                   changed_files |-> {},
                   touched |-> {}]
    /\ answer' = Answer("start_monitoring", NoId, NoId, None, "ok", {}, <<>>)
    /\ UNCHANGED <<project, files, dirs, checkpoints, blobs, now, pc, cp, todo, prune,
                   last, pre, issued, prev, retry, stored>>
    /\ UNCHANGED <<config, strays, mtimes, racers, blobfile, elsewhere>>

\* (mutant) ">=" for ">" in the comparison of the modification times
_check_for_changes_not_older(is_monitoring) ==
    IF ~is_monitoring THEN monitor.changed_files
    ELSE monitor.changed_files
         \cup {p \in get_project_files(files) :
                 \/ p \notin DOMAIN monitor.initial_file_states
                 \/ /\ p \in DOMAIN monitor.initial_file_states
                    /\ mtimes[p] >= monitor.initial_file_states[p]}
         \cup {p \in DOMAIN monitor.initial_file_states : p \notin DOMAIN files}

\* FileMonitorService._check_for_changes with is_monitoring as given: the
\* changed_files after the call
_check_for_changes(is_monitoring) ==
    IF ~is_monitoring THEN monitor.changed_files
    ELSE monitor.changed_files
         \cup {p \in get_project_files(files) :
                 \/ p \notin DOMAIN monitor.initial_file_states
                 \/ /\ p \in DOMAIN monitor.initial_file_states
                    /\ mtimes[p] > monitor.initial_file_states[p]}
         \cup {p \in DOMAIN monitor.initial_file_states : p \notin DOMAIN files}

\* file_monitor_service.py 66-69: "self.is_monitoring = False" and then
\* "self._check_for_changes()"
final_check == _check_for_changes(FALSE)

\* FileMonitorService.get_changed_files
GetChangedFiles ==
    /\ monitor' = [monitor EXCEPT
                      !.changed_files = _check_for_changes(monitor.is_monitoring)]
    /\ answer' = Answer("get_changed_files", NoId, NoId, None, "ok",
                        _check_for_changes(monitor.is_monitoring), <<>>)
    /\ UNCHANGED <<project, files, dirs, checkpoints, blobs, now, pc, cp, todo, prune,
                   last, pre, issued, prev, retry, stored>>
    /\ UNCHANGED <<config, strays, mtimes, racers, blobfile, elsewhere>>

\* FileMonitorService.stop_monitoring
StopMonitoring ==
    /\ monitor.is_monitoring
    /\ monitor' = [monitor EXCEPT !.is_monitoring = FALSE,
                                  !.changed_files = final_check]
    /\ answer' = Answer("stop_monitoring", NoId, NoId, None, "ok", final_check, <<>>)
    /\ UNCHANGED <<project, files, dirs, checkpoints, blobs, now, pc, cp, todo, prune,
                   last, pre, issued, prev, retry, stored>>
    /\ UNCHANGED <<config, strays, mtimes, racers, blobfile, elsewhere>>

MonitorInit ==
    /\ project = {<<"a", "">>, <<"a", "x">>, <<"c", "x">>, <<".git", "x">>}
    /\ Constructed
    /\ config = Config({}, default_max_file_size)
    /\ strays = {}
    /\ mtimes = EmptyMap
    /\ monitor = NoMonitor
    /\ racers = NoRacers
    /\ blobfile = Absent

MonitorNext ==
    \/ \E e \in project : MonitoredWrite(e[1], e[2])
    \/ \E p \in Paths : MonitoredDelete(p)
    \/ StartMonitoring
    \/ GetChangedFiles
    \/ StopMonitoring

MonitorSpec == MonitorInit /\ [][MonitorNext]_vars

\* A blob file disappears from the store directory (a corrupt store, or a
\* collection of blobs by hand).
BlobLost(h) ==
    /\ pc = "idle"
    /\ h \in DOMAIN blobs
    /\ blobs' = Remove(blobs, h)
    /\ answer' = NoAnswer
    /\ last' = NoLast
    /\ pre' = EmptyMap
    /\ UNCHANGED <<project, files, dirs, checkpoints, now, pc, cp, todo, prune, issued,
                   prev, retry>>
    /\ UNCHANGED <<aside, stored>>



Next ==
    \/ Tick
    \/ \E e \in project : UserWrite(e[1], e[2])
    \/ \E p \in Paths : UserDelete(p)
    \/ \E d \in Paths : UserRmdir(d)
    \/ CreateStart
    \/ \E p \in Paths : CreateFile(p)
    \/ CreateOpen
    \/ CreateDump
    \/ \E e \in Errors : CreateFail(e)
    \/ \E t \in Ids : RestoreNotFound(t)
    \/ \E t \in Ids : RestoreLoadFail(t)
    \/ \E t \in Ids : RestoreStart(t)
    \/ \E i \in Ids : RestorePrune(i)
    \/ RestoreEnumerate
    \/ \E p \in Paths : RestoreDelete(p)
    \/ RestoreMaterialize
    \/ \E p \in Paths : RestoreWrite(p)
    \/ \E p \in Paths : RestoreWriteError(p)
    \/ RestoreReturn
    \/ RestoreInterrupt

Spec == Init /\ [][Next]_vars

\* The store under queries: up to MaxStored checkpoints are created from an
\* edited tree, blobs may go missing, and the comparison and listing calls
\* run between operations.
QueryNext ==
    \/ Tick
    \/ \E e \in project : UserWrite(e[1], e[2])
    \/ \E p \in Paths : UserDelete(p)
    \/ get_next_checkpoint_id(checkpoints) <= MaxStored /\ CreateStart
    \/ \E p \in Paths : CreateFile(p)
    \/ CreateOpen
    \/ CreateDump
    \/ \E a, b \in 1..MaxStored + 1 : CompareCheckpoints(a, b)
    \/ \E a, b \in 1..MaxStored + 1 : ComparatorCompareCheckpoints(a, b)
    \/ \E i \in 1..MaxStored + 1 : CompareWithCurrent(i)
    \/ \E s \in Enumerations(checkpoints) : ListCheckpoints(s)
    \/ \E i \in 1..MaxStored + 1 : LoadCheckpoint(i)
    \/ \E h \in Addresses : BlobLost(h)

QuerySpec == Init /\ [][QueryNext]_vars

\* The content store called directly, next to the checkpoints that share it.
StoreNext ==
    \/ \E e \in project : UserWrite(e[1], e[2])
    \/ get_next_checkpoint_id(checkpoints) <= MaxStored /\ CreateStart
    \/ \E p \in Paths : CreateFile(p)
    \/ CreateOpen
    \/ CreateDump
    \/ \E c \in Strings : SaveFileSnapshot(c)
    \/ \E h \in Addresses : LoadFileSnapshot(h)

StoreSpec == Init /\ [][StoreNext]_vars

\* ================================================================ claims
CreateReturned == last.op = "create" /\ last.result = "ok"

RestoreReturnedTrue == last.op = "restore" /\ last.result = "true"

\* The step in which create_checkpoint returns its checkpoint
CreateReturns == pc = "c_dump" /\ pc' = "idle" /\ last'.result = "ok"

C2_ReferentialIntegrity ==
    \A i \in DOMAIN checkpoints :
        \A p \in DOMAIN checkpoints[i].file_snapshots :
            checkpoints[i].file_snapshots[p] \in DOMAIN blobs

\* C2 witness: inside a restore, after a prune, with a manifest that
\* references blobs.
C2_Witness ==
    /\ pc = "r_delete"
    /\ DOMAIN checkpoints # DOMAIN pre
    /\ \E i \in DOMAIN checkpoints : DOMAIN checkpoints[i].file_snapshots # {}

\* C3: after restore_checkpoint(T) returned true, on a store where the
\* blobs of T exist: every path of T.file_snapshots is a file whose content
\* is the blob at its address, and every file that is not ignored is a path
\* of T.file_snapshots.
C3_PostRestoreEquivalence ==
    RestoreReturnedTrue =>
        /\ last.target \in DOMAIN checkpoints
        /\ LET T == checkpoints[last.target].file_snapshots IN
             (\A p \in DOMAIN T : T[p] \in DOMAIN blobs) =>
                /\ \A p \in DOMAIN T :
                      p \in DOMAIN files /\ files[p] = blobs[T[p]]
                /\ \A p \in DOMAIN files : ~is_ignored(p) => p \in DOMAIN T

\* C3 witness: a restore returned true for a target that has files, in a
\* tree that holds another checkpoint's worth of history.
C3_Witness ==
    /\ RestoreReturnedTrue
    /\ last.target \in DOMAIN checkpoints
    /\ DOMAIN checkpoints[last.target].file_snapshots # {}
    /\ \E i \in DOMAIN pre :
          pre[i].file_snapshots # pre[last.target].file_snapshots

\* C4: after restore_checkpoint(T) returned true, no manifest in the store
\* has a timestamp greater than T's.
C4_PruneLater ==
    RestoreReturnedTrue =>
        /\ last.target \in DOMAIN checkpoints
        /\ \A i \in DOMAIN checkpoints :
              ~(checkpoints[i].timestamp > checkpoints[last.target].timestamp)

\* C4 witness: the restore that returned true began with two later manifests.
C4_Witness ==
    /\ RestoreReturnedTrue
    /\ last.target \in DOMAIN pre
    /\ Cardinality({i \in DOMAIN pre :
                       pre[i].timestamp > pre[last.target].timestamp}) >= 2

\* C5 (as stated): restore_checkpoint of an id with no manifest returns
\* false; it does not raise.
C5_AbsentReturnsFalse ==
    (last.op = "restore" /\ last.target \notin DOMAIN checkpoints) =>
        last.result = "false"

\* C6: a restore_checkpoint(T) that follows a restore_checkpoint(T) which
\* returned true finds T, hits no error of its own, returns true, and leaves
\* the files, their contents and the manifests as the first one left them.
C6_RestoreIdempotent ==
    /\ prev.phase \in {"done", "again", "again_done"} =>
          /\ prev.target \in DOMAIN checkpoints
          /\ ~LoadFails(checkpoints, DOMAIN checkpoints)
    /\ (prev.phase = "again" /\ pc = "r_write") =>
          \A p \in todo : ~WriteRaises(files, dirs, blobs, cp, p)
    /\ prev.phase = "again_done" =>
          /\ RestoreReturnedTrue
          /\ files = prev.files
          /\ checkpoints = prev.checkpoints

\* C6 witness: the second restore returned, in a tree with files.
C6_Witness ==
    /\ prev.phase = "again_done"
    /\ DOMAIN files # {}
    /\ Cardinality(DOMAIN pre) >= 2

\* C7: when a restore_checkpoint(T) stopped after any of its steps, T and
\* the blobs of T are still there, and a rerun of restore_checkpoint(T) that
\* runs to its end leaves the files and the manifests that the restore would
\* have left had it run from the original state without stopping.
C7_RerunCompletesRestore ==
    /\ retry.phase = "interrupted" =>
          /\ retry.target \in DOMAIN checkpoints
          /\ ~checkpoints[retry.target].partial
          /\ \A p \in DOMAIN checkpoints[retry.target].file_snapshots :
                checkpoints[retry.target].file_snapshots[p] \in DOMAIN blobs
    /\ retry.phase = "rerun_done" =>
          /\ RestoreReturnedTrue
          /\ files = retry.files
          /\ checkpoints = retry.checkpoints

\* C7 witness: a rerun ended; the restore it completes had manifests to
\* prune and leaves files that differ from the ones the rerun started with.
C7_Witness ==
    /\ retry.phase = "rerun_done"
    /\ DOMAIN files # {}
    /\ DOMAIN retry.checkpoints # DOMAIN pre

\* C8: the id of a create_checkpoint is 1 + the largest id in the store at
\* the call, or 1 for an empty store; ids are positive, each manifest file
\* holds the id it is named by (no two share one), and the file a create
\* opens did not exist.
C8_NextIdIsMaxPlusOne ==
    /\ pc \in {"c_files", "c_dump"} =>
          cp.id = IF DOMAIN pre = {} THEN 1 ELSE Max(DOMAIN pre) + 1
    /\ pc = "c_files" => cp.id \notin DOMAIN checkpoints
    /\ \A i \in DOMAIN checkpoints : i > 0 /\ checkpoints[i].id = i

\* C8 witness: a create is about to write its manifest into a store that
\* holds two.
C8_Witness ==
    /\ pc = "c_files"
    /\ todo = {}
    /\ Cardinality(DOMAIN checkpoints) >= 2

C10_FailedCreateLeavesNoManifest ==
    (last.op = "create" /\ last.result = "CheckpointError") =>
        checkpoints = pre

\* C11: every step in which create_checkpoint ends without returning its
\* checkpoint raises CheckpointError, and the cause chained to it is an
\* exception the failing step (walk, read, blob put or manifest save) raises;
\* no other exception class leaves create_checkpoint.
C11_FailureIsCheckpointError ==
    [][(pc \in {"c_files", "c_dump"} /\ pc' = "idle" /\ last'.result # "ok") =>
          /\ last'.op = "create"
          /\ last'.result = "CheckpointError"
          /\ last'.cause \in CreateRaises(pc)]_vars

\* C11 witness: json.dump raised a TypeError during the manifest save.
C11_Witness ==
    /\ last.op = "create"
    /\ last.result = "CheckpointError"
    /\ last.cause = "TypeError"
    /\ \E i \in DOMAIN checkpoints : checkpoints[i].partial

\* The manifests a and b exist and every blob they reference is in the store
Intact(i) ==
    /\ i \in DOMAIN checkpoints
    /\ ~checkpoints[i].partial
    /\ \A p \in DOMAIN checkpoints[i].file_snapshots :
          checkpoints[i].file_snapshots[p] \in DOMAIN blobs

\* The text checkpoint i holds for path p (the blob at its address)
TextOf(i, p) == blobs[checkpoints[i].file_snapshots[p]]

\* C12: for checkpoints a and b that exist with their blobs,
\* compare_checkpoints(a, b) returns changes for paths of keys(a) \cup
\* keys(b) only, at most one per path, and for each such path: none iff in
\* both with equal text; "modified" (old = a's text, new = b's) iff in both
\* with different text; "added" (None, b's text) iff only in b; "deleted"
\* (a's text, None) iff only in a.
C12_ChangeClassification ==
    (answer.op = "compare_checkpoints" /\ Intact(answer.a) /\ Intact(answer.b)) =>
        LET A == DOMAIN checkpoints[answer.a].file_snapshots
            B == DOMAIN checkpoints[answer.b].file_snapshots
            Of(p) == {c \in answer.changes : c.file_path = p}
        IN  /\ answer.result = "ok"
            /\ \A c \in answer.changes : c.file_path \in A \cup B
            /\ \A p \in A \cup B :
                  Of(p) =
                    IF p \in A \cap B
                    THEN IF TextOf(answer.a, p) = TextOf(answer.b, p) THEN {}
                         ELSE {CodeChange(p, "modified", TextOf(answer.a, p),
                                          TextOf(answer.b, p))}
                    ELSE IF p \in B
                    THEN {CodeChange(p, "added", None, TextOf(answer.b, p))}
                    ELSE {CodeChange(p, "deleted", TextOf(answer.a, p), None)}

\* C12 witness: a comparison of two intact checkpoints returned a modified
\* path and a deleted or added one.
C12_Witness ==
    /\ answer.op = "compare_checkpoints"
    /\ Intact(answer.a) /\ Intact(answer.b)
    /\ \E c \in answer.changes : c.change_type = "modified"
    /\ \E c \in answer.changes : c.change_type \in {"added", "deleted"}

\* C13 (as stated): every compare_checkpoints(a, b) with the manifest of a
\* or of b absent fails with ComparisonError; none returns a list.
C13_AbsentFailsWithComparisonError ==
    (/\ answer.op \in {"compare_checkpoints", "comparator.compare_checkpoints"}
     /\ (answer.a \notin DOMAIN checkpoints \/ answer.b \notin DOMAIN checkpoints)) =>
        answer.result = "ComparisonError"

\* C14: compare_checkpoints(x, x) of a checkpoint in the store returns the
\* empty list, with the blobs of x in the store or missing.
C14_SelfComparisonEmpty ==
    (/\ answer.op = "compare_checkpoints"
     /\ answer.a = answer.b
     /\ answer.a \in DOMAIN checkpoints
     /\ ~checkpoints[answer.a].partial) =>
        answer.result = "ok" /\ answer.changes = {}

\* C14 witness: x has two files and the blob of one of them is missing.
C14_Witness ==
    /\ answer.op = "compare_checkpoints"
    /\ answer.a = answer.b
    /\ answer.a \in DOMAIN checkpoints
    /\ \E p, q \in DOMAIN checkpoints[answer.a].file_snapshots :
          /\ checkpoints[answer.a].file_snapshots[p] \notin DOMAIN blobs
          /\ checkpoints[answer.a].file_snapshots[q] \in DOMAIN blobs

\* C15: for checkpoints a and b in the store, compare_checkpoints(a, b)
\* reports p "added" with new text c iff compare_checkpoints(b, a) reports p
\* "deleted" with old text c, and "modified" (c1, c2) iff the reverse call
\* reports "modified" (c2, c1).
C15_ChangeSymmetry ==
    (/\ answer.op = "compare_checkpoints"
     /\ answer.a \in DOMAIN checkpoints
     /\ answer.b \in DOMAIN checkpoints
     /\ ~LoadFails(checkpoints, {answer.a, answer.b})) =>
        LET back == compare_checkpoints(checkpoints, blobs, answer.b, answer.a)
        IN  /\ answer.result = "ok" /\ back.result = "ok"
            /\ \A p \in Paths : \A c \in Contents :
                  /\ CodeChange(p, "added", None, c) \in answer.changes
                        <=> CodeChange(p, "deleted", c, None) \in back.changes
                  /\ CodeChange(p, "deleted", c, None) \in answer.changes
                        <=> CodeChange(p, "added", None, c) \in back.changes
            /\ \A p \in Paths : \A c1, c2 \in Contents :
                  CodeChange(p, "modified", c1, c2) \in answer.changes
                     <=> CodeChange(p, "modified", c2, c1) \in back.changes

\* C15 witness: a comparison of two different checkpoints returned an added
\* path.
C15_Witness ==
    /\ answer.op = "compare_checkpoints"
    /\ answer.a # answer.b
    /\ answer.result = "ok"
    /\ \E c \in answer.changes : c.change_type = "added"

\* A live file compare_with_current sees: enumerated by the walker and read
\* as text
Live(p) == p \in DOMAIN files /\ ~is_ignored(p) /\ files[p] \in Contents

\* C16: compare_with_current(i), for a checkpoint whose blobs are in the
\* store: a path of the checkpoint whose live file is missing, ignored or
\* unreadable is "deleted"; an unreadable live file that is not in the
\* checkpoint gives no change; a readable live file not in the checkpoint is
\* "added"; one whose text differs from the checkpoint's is "modified"; one
\* with the same text gives no change.
C16_LiveSidePresence ==
    (answer.op = "compare_with_current" /\ Intact(answer.a)) =>
        LET T == DOMAIN checkpoints[answer.a].file_snapshots
            Of(p) == {c \in answer.changes : c.file_path = p}
        IN  /\ answer.result = "ok"
            /\ \A p \in Paths :
                  Of(p) =
                    IF p \in T /\ ~Live(p)
                    THEN {CodeChange(p, "deleted", TextOf(answer.a, p), None)}
                    ELSE IF p \notin T /\ ~Live(p) THEN {}
                    ELSE IF p \notin T
                    THEN {CodeChange(p, "added", None, files[p])}
                    ELSE IF TextOf(answer.a, p) # files[p]
                    THEN {CodeChange(p, "modified", TextOf(answer.a, p), files[p])}
                    ELSE {}

\* C16 witness: a path of the checkpoint is reported deleted while its live
\* file exists with bytes that do not read as text.
C16_Witness ==
    /\ answer.op = "compare_with_current"
    /\ Intact(answer.a)
    /\ \E c \in answer.changes :
          /\ c.change_type = "deleted"
          /\ c.file_path \in DOMAIN files
          /\ files[c.file_path] = BIN

\* C17 (as stated): list() returns the manifests by ascending timestamp, the
\* ones with equal timestamps by ascending id, whatever the order in which
\* the directory enumerates the files.
C17_ListByTimestampThenId ==
    (answer.op = "list_checkpoints" /\ answer.result = "ok") =>
        /\ {answer.list[k] : k \in DOMAIN answer.list} = DOMAIN checkpoints
        /\ \A k, l \in DOMAIN answer.list :
              k < l =>
                \/ checkpoints[answer.list[k]].timestamp
                      < checkpoints[answer.list[l]].timestamp
                \/ /\ checkpoints[answer.list[k]].timestamp
                         = checkpoints[answer.list[l]].timestamp
                   /\ answer.list[k] < answer.list[l]

\* C18: no step of create_checkpoint or restore_checkpoint removes a blob
\* or changes what is stored at an address: a blob in the store before the
\* step is there after it, with the same text.
C18_BlobsImmutable ==
    [][\A h \in DOMAIN blobs : h \in DOMAIN blobs' /\ blobs'[h] = blobs[h]]_vars

\* C18 witness: a restore that pruned manifests returned, and a blob that no
\* remaining manifest references is still in the store.
C18_Witness ==
    /\ RestoreReturnedTrue
    /\ DOMAIN checkpoints # DOMAIN pre
    /\ \E h \in DOMAIN blobs :
          \A i \in DOMAIN checkpoints :
              \A p \in DOMAIN checkpoints[i].file_snapshots :
                  checkpoints[i].file_snapshots[p] # h

C20_ContentRoundTrip ==
    [][(/\ answer.op = "save_file_snapshot"
        /\ answer'.op = "load_file_snapshot"
        /\ answer'.arg = answer.result) =>
           answer'.result = answer.arg]_vars

\* C21: the blob store holds one blob file for every distinct string that was
\* ever put, whether by create_checkpoint or by save_file_snapshot: the blob
\* files are exactly the addresses of the strings put, as many as the strings.
C21_OneBlobPerContent ==
    /\ DOMAIN blobs = {_get_file_hash(c) : c \in stored}
    /\ Cardinality(DOMAIN blobs) = Cardinality(stored)

\* Two files of one manifest share an address, the same content was put again
\* directly, and a second content is in the store.
C21_Witness ==
    /\ answer.op = "save_file_snapshot"
    /\ Cardinality(stored) >= 2
    /\ \E i \in DOMAIN checkpoints : \E p, q \in DOMAIN checkpoints[i].file_snapshots :
          /\ p # q
          /\ checkpoints[i].file_snapshots[p] = answer.result
          /\ checkpoints[i].file_snapshots[q] = answer.result

\* A step of create_checkpoint
CreateStep == pc \in {"c_files", "c_dump"} \/ pc' \in {"c_files", "c_dump"}

\* A step that is a comparison, a listing or a load
ReadStep ==
    answer'.op \in {"compare_checkpoints", "comparator.compare_checkpoints",
                    "compare_with_current", "list_checkpoints", "load_checkpoint"}

\* C22: of the operations, only restore writes the project tree: no step of
\* create_checkpoint, compare_checkpoints, compare_with_current, list or load
\* changes a file or a directory of the tree, and a comparison, a listing or
\* a load leaves the blob store and the manifest store as they were too.
C22_ReadsLeaveTreeAndStore ==
    [][/\ CreateStep => UNCHANGED <<files, dirs>>
       /\ ReadStep => UNCHANGED <<files, dirs, blobs, checkpoints>>]_vars

\* A comparison with the live tree found differences, over a store with a
\* checkpoint that captured a file and a tree that still has files.
C22_Witness ==
    /\ answer.op = "compare_with_current"
    /\ answer.result = "ok"
    /\ answer.changes # {}
    /\ DOMAIN files # {}
    /\ DOMAIN blobs # {}
    /\ checkpoints[answer.a].file_snapshots # EmptyMap

\* C23: two save_file_snapshot calls with the same content c that run at the
\* same time, their checks and writes interleaved in any order: once both
\* have returned, both returned the address of c and the blob file at that
\* address exists with content c.
C23_RacingPutsAgree ==
    (\A k \in Callers : racers[k].at = "done") =>
        /\ \A k \in Callers :
              racers[k].returned = _get_file_hash(Joined(racers[k].content))
        /\ blobfile # Absent
        /\ \A k \in Callers : blobfile = racers[k].content

\* Both callers found the blob absent, both wrote, and both have returned;
\* the content has more than one chunk.
C23_Witness ==
    /\ \A k \in Callers : racers[k].at = "done"
    /\ \A k \in Callers : racers[k].offset = 2

\* The checkpoint that export visited at position k
Visited(k) == checkpoints[answer.list[k].id]

\* C24: export visits the checkpoints in listing order (ascending timestamp,
\* each manifest once); a checkpoint with a prompt and no restored_from is
\* diffed against the most recent checkpoint visited before it that has no
\* restored_from, and against nothing when there is none; a checkpoint with
\* restored_from, or without a prompt, is not diffed, and a checkpoint with
\* restored_from is never the reference of a diff.
C24_ExportDiffReference ==
    answer.op = "export_data" =>
        /\ {answer.list[k].id : k \in DOMAIN answer.list} = DOMAIN checkpoints
        /\ Len(answer.list) = Cardinality(DOMAIN checkpoints)
        /\ \A j, k \in DOMAIN answer.list :
              j < k => Visited(j).timestamp <= Visited(k).timestamp
        /\ \A k \in DOMAIN answer.list :
              LET earlier == {j \in 1..k - 1 : Visited(j).restored_from = NoId} IN
              IF Visited(k).prompt /\ Visited(k).restored_from = NoId /\ earlier # {}
              THEN answer.list[k].against = answer.list[Max(earlier)].id
              ELSE answer.list[k].against = NoId
        /\ \A k \in DOMAIN answer.list :
              answer.list[k].against # NoId =>
                  checkpoints[answer.list[k].against].restored_from = NoId

\* Three checkpoints were exported; the second records a restore, and the
\* third was diffed against the first.
C24_Witness ==
    /\ answer.op = "export_data"
    /\ Len(answer.list) = 3
    /\ Visited(2).restored_from # NoId
    /\ answer.list[3].against = answer.list[1].id
    /\ answer.list[1].against = NoId

\* C25 (as stated): with files in the checkpoints directory whose stem is not
\* a positive integer (notes.json, 0.json, -1.json), list() succeeds and
\* returns exactly the manifests, and next_id() is one more than the largest
\* positive-integer stem, 1 when there is none.
C25_StrayFilesIgnored ==
    /\ answer.op = "list_checkpoints" =>
          /\ answer.result = "ok"
          /\ {answer.list[k] : k \in DOMAIN answer.list} = DOMAIN checkpoints
    /\ answer.op = "get_next_checkpoint_id" =>
          answer.a = IF DOMAIN checkpoints = {} THEN 1
                     ELSE Max(DOMAIN checkpoints) + 1

\* fnmatch of a path component against a pattern, for the names and the
\* patterns of UnitConfigs
Matches(part, pattern) ==
    \/ part = pattern
    \/ pattern = "*.tmp" /\ part = "test.tmp"
    \/ pattern = "temp_*" /\ part = "temp_file.txt"

\* C26 (as stated): is_ignored answers True exactly for a path with a
\* component that matches, as a wildcard pattern, an entry of the ignore
\* patterns: with "*.tmp" and "temp_*" configured, test.tmp and
\* temp_file.txt are ignored and main.py is not.
C26_PatternsAreWildcards ==
    answer.op = "is_ignored" =>
        (answer.result = "True" <=>
            \E k \in DOMAIN Parts(answer.arg) : \E pattern \in ignore_patterns :
                Matches(Parts(answer.arg)[k], pattern))

\* The directory names the default ignore set is stated to contain
StatedDefaults ==
    {".git", "__pycache__", ".pytest_cache", "node_modules", ".codesnap",
     ".venv", "venv", "env", ".mypy_cache"}

\* C27 (as stated): the default ignore set contains .git, __pycache__,
\* .pytest_cache, node_modules, .codesnap, .venv, venv, env and .mypy_cache,
\* a file under a directory with one of those names is ignored, and no
\* manifest captures such a file.
C27_DefaultIgnoreSet ==
    /\ StatedDefaults \subseteq config.default_ignore_patterns
    /\ answer.op = "is_ignored" =>
          ((\E k \in DOMAIN Parts(answer.arg) : Parts(answer.arg)[k] \in StatedDefaults)
              => answer.result = "True")
    /\ \A i \in DOMAIN checkpoints : \A p \in DOMAIN checkpoints[i].file_snapshots :
          \A k \in DOMAIN Parts(p) : Parts(p)[k] \notin StatedDefaults

derived_name(i, prompt) ==
    CASE prompt = "short prompt" -> "short prompt"
      [] prompt = "long prompt" -> "long promp..."
      [] OTHER -> "Checkpoint 1"

\* C29 (as stated): a checkpoint is constructed from an id alone, and its
\* name is derived from the prompt (the first 50 characters, with an
\* ellipsis when there are more) or is "Checkpoint <id>", whatever name is
\* supplied.
C29_NameIsDerived ==
    answer.op = "Checkpoint" => answer.result = derived_name(answer.a, answer.arg)

\* C30 (as stated): stop_monitoring returns every file that was created,
\* modified or deleted between start_monitoring and the stop, whether or not
\* get_changed_files was called after the change.
C30_StopReturnsEveryChange ==
    answer.op = "stop_monitoring" => monitor.touched \subseteq answer.changes

\* C31: on a store with referential integrity, for checkpoints a and b that
\* exist, compare_checkpoints(a, b) decides by content what the addresses
\* decide: a path in both manifests is omitted iff its two addresses are
\* equal, and a path is reported "added" (or "deleted") iff it is a key of
\* b only (of a only), never because a blob did not load.
C31_ContentAgreesWithAddress ==
    (answer.op = "compare_checkpoints" /\ Intact(answer.a) /\ Intact(answer.b)) =>
        LET A == checkpoints[answer.a].file_snapshots
            B == checkpoints[answer.b].file_snapshots
            Kind(p) == {c.change_type : c \in {d \in answer.changes : d.file_path = p}}
        IN  \A p \in DOMAIN A \cup DOMAIN B :
              /\ p \in DOMAIN A \cap DOMAIN B => (Kind(p) = {} <=> A[p] = B[p])
              /\ "added" \in Kind(p) <=> p \in DOMAIN B \ DOMAIN A
              /\ "deleted" \in Kind(p) <=> p \in DOMAIN A \ DOMAIN B

\* Two intact checkpoints were compared: one path has the same address in
\* both and is omitted, one has the address of the empty text on one side
\* and is reported as modified.
C31_Witness ==
    /\ answer.op = "compare_checkpoints"
    /\ Intact(answer.a) /\ Intact(answer.b)
    /\ LET A == checkpoints[answer.a].file_snapshots
           B == checkpoints[answer.b].file_snapshots
       IN  /\ \E p \in DOMAIN A \cap DOMAIN B :
                 A[p] = B[p] /\ \A c \in answer.changes : c.file_path # p
           /\ \E c \in answer.changes :
                 /\ c.change_type = "modified"
                 /\ c.file_path \in DOMAIN A \cap DOMAIN B
                 /\ _get_file_hash("") \in {A[c.file_path], B[c.file_path]}

C33_LaterIdsRemoved ==
    RestoreReturnedTrue => \A i \in DOMAIN checkpoints : i <= last.target

\* C34: a file that is not ignored and that create_checkpoint skipped,
\* because read_file_content returned None for it, is not a key of the
\* checkpoint's file_snapshots; a restore of a checkpoint that returned true
\* has deleted every file that is not ignored and not a key of the target,
\* whether it was changed or not; and the restore left the tree it began
\* with unchanged only if every file of that tree that is not ignored was
\* readable.
C34_SkippedFilesAreDeleted ==
    /\ CreateReturned =>
          \A p \in get_project_files(files) :
              read_file_content(files, p) = None
                  => p \notin DOMAIN last.value.file_snapshots
    /\ (RestoreReturnedTrue /\ retry.phase = "first_done") =>
          /\ \A p \in get_project_files(retry.before) :
                p \notin DOMAIN pre[last.target].file_snapshots
                    => p \notin DOMAIN files
          /\ files = retry.before =>
                \A p \in get_project_files(retry.before) :
                    read_file_content(retry.before, p) # None

\* A restore returned true; the tree it began with had a file of
\* undecodable bytes that the target does not list, and the file is gone.
C34_Witness ==
    /\ RestoreReturnedTrue
    /\ retry.phase = "first_done"
    /\ \E p \in get_project_files(retry.before) :
          /\ retry.before[p] = BIN
          /\ p \notin DOMAIN pre[last.target].file_snapshots
          /\ p \notin DOMAIN files
    /\ DOMAIN files # {}

\* C35 (as stated): a restore_checkpoint of a target that exists, over a
\* store whose manifests load and whose blobs are all there, returns true
\* whatever the live tree holds, a target path that is now a directory
\* included; unless the device fails it does not end with RestoreError once
\* it has begun to prune and delete.
C35_RestoreCompletesOnAnyTree ==
    (last.op = "restore" /\ last.target \in DOMAIN pre /\ last.cause # Interrupted)
        => last.result = "true"

\* C36: restore_checkpoint(T, R) with R outside the project leaves every
\* file and directory under project_root as it was, and still removes from
\* the store every manifest with a timestamp greater than T's and no other,
\* as a restore into project_root does.
C36_RestoreElsewhere ==
    [][answer'.op = "restore_checkpoint" =>
          /\ UNCHANGED <<files, dirs>>
          /\ checkpoints' =
                [i \in {j \in DOMAIN checkpoints :
                           checkpoints[j].timestamp
                               <= checkpoints[answer'.a].timestamp}
                   |-> checkpoints[i]]]_vars

\* A restore into R returned true: it pruned a manifest, the project tree
\* has a file the target does not list, and R ends with other files than
\* the project.
C36_Witness ==
    /\ answer.op = "restore_checkpoint"
    /\ answer.result = "true"
    /\ DOMAIN checkpoints # DOMAIN pre
    /\ \E p \in get_project_files(files) :
          p \notin DOMAIN checkpoints[answer.a].file_snapshots
    /\ elsewhere.files # EmptyMap
    /\ elsewhere.files # files

\* C37: with the default configuration the store lies in the directory
\* .codesnap of the project, and '.codesnap' is an ignore token: after any
\* sequence of create and restore no path under .codesnap is a key of a
\* file_snapshots, and a restore takes no file of the store for a surplus
\* file or for a target: it leaves the blobs as they are and removes only
\* the manifests it prunes.
C37_StoreIsNotCaptured ==
    [][/\ \A i \in DOMAIN checkpoints' :
             DOMAIN checkpoints'[i].file_snapshots \cap StorePaths = {}
       /\ answer'.op = "restore_checkpoint" =>
             /\ blobs' = blobs
             /\ checkpoints' = PrunedStore(checkpoints, checkpoints[answer'.a])
             /\ files_to_delete(
                    walk(files, PrunedStore(checkpoints, checkpoints[answer'.a]),
                         blobs),
                    checkpoints[answer'.a]) \cap StorePaths = {}]_vars

\* a restore returned True in a store of two checkpoints, the second created
\* over a tree in which the blobs and the manifest of the first lay
C37_Witness ==
    /\ answer.op = "restore_checkpoint"
    /\ answer.result = "true"
    /\ DOMAIN checkpoints = {1, 2}
    /\ DOMAIN checkpoints[1].file_snapshots # {}
    /\ DOMAIN checkpoints[2].file_snapshots # {}
    /\ DOMAIN pre = {1, 2}
    /\ store_files(checkpoints, blobs) # EmptyMap

\* C38: while monitoring, get_changed_files returns what the earlier checks
\* since start_monitoring reported together with every project file that is
\* not in the baseline, or has a modification time greater than its baseline
\* value, and every baseline path that no longer exists; between two
\* start_monitoring calls the set only grows; when monitoring is not active
\* get_changed_files returns the last set and changes nothing.
C38_ChangedFilesAccumulate ==
    [][/\ answer'.op = "get_changed_files" =>
             IF monitor.is_monitoring
             THEN /\ answer'.changes =
                        monitor.changed_files
                        \cup {p \in DOMAIN files \ DOMAIN monitor.initial_file_states :
                                 ~is_ignored(p)}
                        \cup {p \in DOMAIN files \cap DOMAIN monitor.initial_file_states :
                                 ~is_ignored(p)
                                 /\ mtimes[p] > monitor.initial_file_states[p]}
                        \cup (DOMAIN monitor.initial_file_states \ DOMAIN files)
                  /\ monitor'.changed_files = answer'.changes
             ELSE /\ answer'.changes = monitor.changed_files
                  /\ monitor' = monitor
       /\ answer'.op = "start_monitoring" => monitor'.changed_files = {}
       /\ answer'.op # "start_monitoring" =>
             monitor.changed_files \subseteq monitor'.changed_files]_vars

\* get_changed_files, while monitoring, returned a file that was deleted and
\* a file that exists, and left out a new file that is ignored
C38_Witness ==
    /\ answer.op = "get_changed_files"
    /\ monitor.is_monitoring
    /\ \E p \in answer.changes : p \notin DOMAIN files
    /\ \E p \in answer.changes : p \in DOMAIN files
    /\ \E p \in DOMAIN files \ DOMAIN monitor.initial_file_states :
          p \notin answer.changes

\* C39: right after start_monitoring changed_files is empty and
\* initial_file_states holds exactly the non-ignored files that exist, each
\* with its modification time, and nothing of an earlier session.
C39_StartResetsBaseline ==
    answer.op = "start_monitoring" =>
        /\ monitor.changed_files = {}
        /\ DOMAIN monitor.initial_file_states = get_project_files(files)
        /\ \A p \in get_project_files(files) :
              monitor.initial_file_states[p] = mtimes[p]

====
